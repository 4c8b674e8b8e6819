------------------------------- MODULE ProdCons -------------------------------
(***************************************************************************)
(* The commands producer and consumer (Userland/ShellModule/commands/      *)
(* prodcons.c): a shared memory (Kernel/ipc/smem.c) that holds one item,   *)
(* and the semaphore of Semaphores.tla, on which whoever has to wait       *)
(* waits for itself.  The commands read mp->used without a system call,    *)
(* and the timer may preempt them between any two of their steps.  A       *)
(* producer or consumer of the model types the command again and again,    *)
(* the other tasks are the operators of Semaphores, who may meddle with    *)
(* the semaphore at any time.                                              *)
(***************************************************************************)
EXTENDS Semaphores

CONSTANTS
  Producers,
  Consumers,
  Items,   \* what producers write: sequences of bytes
  Size,    \* mp->size
  Blank,   \* a byte of the shared memory before anybody wrote it
  NoItem   \* what has been consumed before anything is

ASSUME ProdConsAssumption ==
  /\ Producers \subseteq Tasks /\ Consumers \subseteq Tasks
  /\ Producers \intersect Consumers = {}
  /\ \A t \in Producers \union Consumers : t \notin Signallers /\ Blocks[t] = {}
  /\ Size \in Nat \ {0}
  /\ Items \subseteq Seq(UNION {{item[k] : k \in DOMAIN item} : item \in Items})
  /\ <<>> \notin Items
  /\ NoItem \notin Items

VARIABLES
  pc,      \* where a producer or a consumer is in put or get
  item,    \* what a producer is to write
  used,    \* the fields of mp
  locked,
  cells,   \* the bytes at mp->shmaddr
  got      \* the item consumed last

mp == <<used, locked, cells>>
semaphore == vars
pvars == <<semaphore, pc, item, mp, got>>

Users == Producers \union Consumers

\* The bytes of i that fit into the shared memory.
Cut(i) == SubSeq(i, 1, IF Len(i) > Size THEN Size ELSE Len(i))

PInit ==
  /\ Init
  /\ pc = [t \in Users |-> "idle"]
  /\ item \in [Producers -> Items]
  /\ used = 0
  /\ locked = "UNLOCKED"
  /\ cells = [k \in 1 .. Size |-> Blank]
  /\ got = NoItem

Goto(t, from, to) ==
  /\ Runs(t)
  /\ pc[t] = from
  /\ pc' = [pc EXCEPT ![t] = to]

-----------------------------------------------------------------------------
\* The command starts.
Begin(t) ==
  /\ Goto(t, "idle", "test")
  /\ IF t \in Producers
     THEN \E i \in Items : item' = [item EXCEPT ![t] = i] ELSE UNCHANGED item
  /\ UNCHANGED <<semaphore, mp, got>>

\* Mutant of Test: the producer does not look whether there is an item.
TestConsumerOnly(t) ==
  /\ \/ t \in Producers /\ Goto(t, "test", "lock")
     \/ t \in Consumers /\ Goto(t, "test", IF used = 0 THEN "wait" ELSE "read")
  /\ UNCHANGED <<semaphore, item, mp, got>>

\* The condition of the while loops of put and get.
Test(t) ==
  /\ \/ t \in Producers /\ Goto(t, "test", IF used # 0 THEN "wait" ELSE "lock")
     \/ t \in Consumers /\ Goto(t, "test", IF used = 0 THEN "wait" ELSE "read")
  /\ UNCHANGED <<semaphore, item, mp, got>>

\* sys_sem_wait(sem, pid, 0) for itself: it takes the value, or it pauses and
\* is put in the queue when somebody has readied it.
Wait(t) ==
  /\ \/ Goto(t, "wait", "test") /\ Take(t)
     \/ Goto(t, "wait", "paused") /\ Pause(t, t)
     \/ /\ pc[t] = "paused"
        /\ pc' = [pc EXCEPT ![t] = "test"]
        /\ Enqueue(t)
  /\ UNCHANGED <<item, mp, got>>

\* sys_shm_ctl(SHM_WLOCK), whose result put ignores; everybody passes mp->user.
Lock(t) ==
  /\ Goto(t, "lock", "write")
  /\ locked' = IF locked = "UNLOCKED" THEN "LOCKED_WRITE" ELSE locked
  /\ UNCHANGED <<semaphore, item, used, cells, got>>

\* shm_write; it gives back whatever lock there is, and refuses without one.
Write(t) ==
  /\ Goto(t, "write", "signal")
  /\ IF locked = "LOCKED_WRITE"
     THEN LET bytes == Cut(item[t]) IN
          /\ cells' = [k \in 1 .. Size |-> IF k <= Len(bytes) THEN bytes[k]
                                           ELSE cells[k]]
          /\ used' = used + Len(bytes)
          /\ locked' = "UNLOCKED"
     ELSE UNCHANGED mp
  /\ UNCHANGED <<semaphore, item, got>>

\* Mutant of Read: used does not go down.
ReadKeep(t) ==
  /\ Goto(t, "read", "signal")
  /\ IF locked # "LOCKED_WRITE" /\ used # 0
     THEN LET count == IF Size > used THEN used ELSE Size IN
          got' = SubSeq(cells, 1, count)
     ELSE UNCHANGED got
  /\ UNCHANGED <<semaphore, item, mp>>

\* Mutant of Read: a write lock does not refuse it.
ReadAlways(t) ==
  /\ Goto(t, "read", "signal")
  /\ LET count == IF Size > used THEN used ELSE Size IN
     /\ got' = IF used # 0 THEN SubSeq(cells, 1, count) ELSE got
     /\ used' = used - count
     /\ locked' = "UNLOCKED"
  /\ UNCHANGED <<semaphore, item, cells>>

\* shm_read of mp->size bytes.  Refused, or finding nothing left, it leaves the
\* consumer with a buffer that nobody wrote: nothing is consumed.
Read(t) ==
  /\ Goto(t, "read", "signal")
  /\ IF locked # "LOCKED_WRITE"
     THEN LET count == IF Size > used THEN used ELSE Size IN
          /\ got' = IF used # 0 THEN SubSeq(cells, 1, count) ELSE got
          /\ used' = used - count
          /\ locked' = "UNLOCKED"
     ELSE UNCHANGED <<used, locked, got>>
  /\ UNCHANGED <<semaphore, item, cells>>

\* sys_sem_sig, and the command returns.
Done(t) ==
  /\ Goto(t, "signal", "idle")
  /\ Signal(t)
  /\ UNCHANGED <<item, mp, got>>

User(t) ==
  \/ Begin(t) \/ Test(t) \/ Wait(t) \/ Done(t)
  \/ t \in Producers /\ Lock(t)
  \/ t \in Producers /\ Write(t)
  \/ t \in Consumers /\ Read(t)

\* What the semaphore goes through without the commands.
Others ==
  /\ \/ \E t \in Tasks \ Users :
          \/ Take(t) \/ Enqueue(t)
          \/ t \in Signallers /\ Signal(t)
          \/ \E who \in Blocks[t] : Pause(t, who) \/ Sleep(t, who)
     \/ \E t \in Tasks : SleepOver(t) \/ WakeUp(t)
  /\ UNCHANGED <<pc, item, mp, got>>

PNext == Others \/ \E t \in Users : User(t)

PSpec == PInit /\ [][PNext]_pvars

-----------------------------------------------------------------------------
Bytes == {Blank} \union UNION {{i[k] : k \in DOMAIN i} : i \in Items}

\* What is used fits into the shared memory, although shm_write adds to it.
MemoryOK ==
  /\ pc \in [Users -> {"idle", "test", "wait", "paused", "lock", "write",
                       "read", "signal"}]
  /\ item \in [Producers -> Items]
  /\ used \in 0 .. Size
  /\ locked \in {"UNLOCKED", "LOCKED_WRITE"}
  /\ cells \in [1 .. Size -> Bytes]
  /\ got \in Seq(Bytes) \union {NoItem}

\* A producer that is about to write has the lock, which nobody else gives back,
\* a late consumer neither: its item will not be refused.  And no lock is left
\* behind.
LockHeld ==
  locked = "LOCKED_WRITE" <=> \E t \in Producers : pc[t] = "write"

\* With one producer the memory is a queue for one item: every item written is
\* consumed once, whole, and before the next is written, however the consumers
\* interleave and whatever becomes of the semaphore.
Fifo == INSTANCE BoundedFifo WITH
  Msgs <- {Cut(i) : i \in Items},
  NoMsg <- NoItem,
  Capacity <- 1,
  content <- IF used = 0 THEN <<>> ELSE <<SubSeq(cells, 1, used)>>,
  out <- got

ItemsInOrder == Fifo!ExchangeSpec

=============================================================================
