------------------------------ MODULE PageFrames ------------------------------
(***************************************************************************)
(* The physical frames and the page tables of the processes: the stack of  *)
(* free frames of Kernel/mem.c and the code of Kernel/paging.c that builds *)
(* the tables of a process, adds pages on a fault and frees everything     *)
(* when the task is removed.  All of it runs with interrupts disabled and  *)
(* on the kernel's own tables.                                             *)
(*                                                                         *)
(* A place in the tables of a process is a tuple: <<4>>, <<3>> and <<2>>   *)
(* are its level 4, 3 and 2 tables (a process only uses entry 0 of the     *)
(* first two), <<1, d>> the level 1 table that entry d of the level 2      *)
(* table points to, <<0, d, e>> the page that entry e of that table points *)
(* to.  The level 1 tables of the first 12 MB belong to the kernel: every  *)
(* process points to the same ones.                                        *)
(***************************************************************************)
EXTENDS Integers, Sequences

CONSTANTS
  Procs,      \* the task_t structures
  Frames,     \* the frames from 12 MB to the end of memory
  Bottom,     \* the first of them, at the bottom of the stack
  KernelDirs, \* entries 0 .. 5 of the level 2 table
  StackDirs,  \* entries 11 .. 14, the 8 MB of the stack
  HeapDir,    \* entry 15, the heap
  Entries,    \* entries in a level 1 table: 512
  KTable,     \* KTable[d]: the frame of the kernel's level 1 table d
  Boot,       \* the stack of free frames once the kernel has its tables
  Visit(_)    \* the order in which the loops visit a set of places

Dirs       == StackDirs \union {HeapDir}
Tables     == {<<4>>, <<3>>, <<2>>} \union {<<1, d>> : d \in Dirs}
Pages      == {<<0, d, e>> : d \in Dirs, e \in 0 .. Entries - 1}
Shared     == {<<1, d>> : d \in KernelDirs}
Places     == Tables \union Pages \union Shared
KernelUsed == {KTable[d] : d \in KernelDirs}

ASSUME PageFramesAssumption ==
  /\ Bottom \in Frames
  /\ Entries \in Nat \ {0}
  /\ KernelDirs \intersect Dirs = {} /\ HeapDir \notin StackDirs
  /\ KTable \in [KernelDirs -> Frames \ {Bottom}]
  /\ \A c, d \in KernelDirs : KTable[c] = KTable[d] => c = d
  /\ Boot \in Seq(Frames \ KernelUsed) /\ Len(Boot) > 0 /\ Boot[1] = Bottom
  /\ \A i, j \in DOMAIN Boot : Boot[i] = Boot[j] => i = j

\* The order does not matter, but every place is visited exactly once.
ASSUME VisitAssumption ==
  \A S \in SUBSET Places :
    /\ Visit(S) \in Seq(S)
    /\ \A s \in S : \E i \in DOMAIN Visit(S) : Visit(S)[i] = s
    /\ \A i, j \in DOMAIN Visit(S) : Visit(S)[i] = Visit(S)[j] => i = j

VARIABLES
  stack,   \* the entries from pmm_stack_start to pmm_stack_current
  frame,   \* frame[p]: the present places of process p, and their frames
  lost,    \* history: the frames that processes took with them when they ended
  halted   \* mem_panic

vars == <<stack, frame, lost, halted>>

NoTables == [s \in {} |-> Bottom]

\* pmm_initialize and vmm_initialize have pushed the frames and taken the
\* kernel's tables.
Init ==
  /\ stack = Boot
  /\ frame = [p \in Procs |-> NoTables]
  /\ lost = {}
  /\ halted = FALSE

-----------------------------------------------------------------------------
Present(p) == DOMAIN frame[p]

\* The place of s in the order of the loops.
Turn(S, s) == CHOOSE i \in DOMAIN Visit(S) : Visit(S)[i] = s

\* pmm_page_alloc panics rather than take the frame at the bottom.
Available(S) == Len(stack) > Len(Visit(S))

\* pmm_page_alloc, once for every place of S: who gets which frame.
TopFor(S, s) == stack[Len(stack) + 1 - Turn(S, s)]

\* Mutant of Popped: the last allocation does not move the stack pointer.
PoppedLess(S) == SubSeq(stack, 1, Len(stack) + 1 - Len(Visit(S)))

\* Mutant of Popped: an allocation moves the stack pointer twice.
PoppedMore(S) == SubSeq(stack, 1, Len(stack) - Len(Visit(S)) - 1)

\* What is left of the stack.
Popped(S) == SubSeq(stack, 1, Len(stack) - Len(Visit(S)))

\* mem_panic: interrupts off, and a loop that never ends.
Panic ==
  /\ halted' = TRUE
  /\ UNCHANGED <<stack, frame, lost>>

-----------------------------------------------------------------------------
\* The places alloc_new_process_stack makes present.
NewPlaces ==
  {<<4>>, <<3>>, <<2>>} \union {<<1, d>> : d \in StackDirs}
    \union {<<0, d, e>> : d \in StackDirs, e \in 0 .. Entries - 1}

\* new_process_cr3 and alloc_new_process_stack, from task_create: the three
\* upper tables, the kernel's level 1 tables, and every page of the stack.
Create(p) ==
  /\ ~halted
  /\ Present(p) = {}
  /\ IF Available(NewPlaces)
     THEN /\ frame' = [frame EXCEPT ![p] =
                         [s \in NewPlaces \union Shared |->
                            IF s \in Shared THEN KTable[s[2]]
                            ELSE TopFor(NewPlaces, s)]]
          /\ stack' = Popped(NewPlaces)
          /\ UNCHANGED <<lost, halted>>
     ELSE Panic

\* Mutant of Fault: the page is added, and the table above it is not.
FaultNoTable(p, e) ==
  LET missing == {<<0, HeapDir, e>>} IN
  /\ ~halted
  /\ Present(p) # {}
  /\ <<0, HeapDir, e>> \notin Present(p)
  /\ IF Available(missing)
     THEN /\ frame' = [frame EXCEPT ![p] =
                         [s \in Present(p) \union missing |->
                            IF s \in missing THEN TopFor(missing, s)
                            ELSE frame[p][s]]]
          /\ stack' = Popped(missing)
          /\ UNCHANGED <<lost, halted>>
     ELSE Panic

\* page_fault_handler, add_page: the process touched page e of its heap.  The
\* level 1 table is added with the first page.  (Outside stack and heap the
\* process is killed, which is Destroy once its shell has noticed.)
Fault(p, e) ==
  LET missing == {<<1, HeapDir>>, <<0, HeapDir, e>>} \ Present(p) IN
  /\ ~halted
  /\ Present(p) # {}
  /\ <<0, HeapDir, e>> \notin Present(p)
  /\ IF Available(missing)
     THEN /\ frame' = [frame EXCEPT ![p] =
                         [s \in Present(p) \union missing |->
                            IF s \in missing THEN TopFor(missing, s)
                            ELSE frame[p][s]]]
          /\ stack' = Popped(missing)
          /\ UNCHANGED <<lost, halted>>
     ELSE Panic

\* Mutant of Freed: the loop over the level 2 table starts at entry 0.
FreedFromZero(p) ==
  {s \in Present(p) : \A d \in Dirs : s # <<0, d, Entries - 1>>}

\* The places whose frames free_l4_table gives back: those of the process,
\* except that the loop of free_l1_table ends before the last entry.
Freed(p) ==
  {s \in Present(p) \ Shared : \A d \in Dirs : s # <<0, d, Entries - 1>>}

\* task_remove, free_l4_table.
Destroy(p) ==
  LET order == Visit(Freed(p)) IN
  /\ ~halted
  /\ Present(p) # {}
  /\ stack' = stack \o [i \in DOMAIN order |-> frame[p][order[i]]]
  /\ frame' = [frame EXCEPT ![p] = NoTables]
  /\ lost' = lost \union {frame[p][s] : s \in Present(p) \ (Shared \union Freed(p))}
  /\ UNCHANGED halted

Next ==
  \E p \in Procs :
    \/ Create(p) \/ Destroy(p)
    \/ \E e \in 0 .. Entries - 1 : Fault(p, e)

Spec == Init /\ [][Next]_vars

-----------------------------------------------------------------------------
\* The stack holds frames, always one at least (the place below the pointer is
\* written by the next free), and the places of a process point to frames and
\* form a tree: no page without the tables above it, in the tables of a process
\* that grew by faults in any order.
TypeOK ==
  /\ stack \in Seq(Frames) /\ Len(stack) > 0
  /\ DOMAIN frame = Procs
  /\ \A p \in Procs :
       /\ Present(p) \subseteq Places
       /\ \A s \in Present(p) : frame[p][s] \in Frames
       /\ Present(p) # {} => {<<4>>, <<3>>, <<2>>} \subseteq Present(p)
       /\ \A d \in Dirs, e \in 0 .. Entries - 1 :
            <<0, d, e>> \in Present(p) => <<1, d>> \in Present(p)
  /\ lost \subseteq Frames
  /\ halted \in BOOLEAN

\* No frame is used for two things at once, however processes come, grow and
\* go: none is twice on the stack of free frames, none is free and in use, and
\* two places share a frame only when it is the kernel's.
FrameExclusive ==
  /\ \A i, j \in DOMAIN stack : stack[i] = stack[j] => i = j
  /\ \A p \in Procs : \A s \in Present(p) \ Shared, i \in DOMAIN stack :
       frame[p][s] # stack[i]
  /\ \A p, q \in Procs : \A s \in Present(p) \ Shared, t \in Present(q) :
       frame[p][s] = frame[q][t] => p = q /\ s = t

\* The kernel's level 1 tables stay the kernel's: every process has them, and
\* the end of a process never frees them.
KernelTablesKept ==
  /\ \A i \in DOMAIN stack : stack[i] \notin KernelUsed
  /\ \A p \in Procs : Present(p) # {} =>
       \A d \in KernelDirs : <<1, d>> \in Present(p) /\ frame[p][<<1, d>>] = KTable[d]

\* Every frame is free, in use, or one of those that free_l1_table forgets, and
\* what is forgotten never comes back: nothing else is lost or found, whatever
\* processes come, grow and go.
FramesAccounted ==
  /\ \A i \in DOMAIN Boot :
       \/ Boot[i] \in lost
       \/ \E j \in DOMAIN stack : stack[j] = Boot[i]
       \/ \E p \in Procs : \E s \in Present(p) : frame[p][s] = Boot[i]
  /\ \A j \in DOMAIN stack : stack[j] \notin lost
  /\ \A p \in Procs : \A s \in Present(p) : frame[p][s] \notin lost

=============================================================================
