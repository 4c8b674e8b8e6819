---------------------------- MODULE ProdConsProofs ----------------------------
(***************************************************************************)
(* With one producer the shared memory of ProdCons is a mailbox for one    *)
(* item.  The invariant says what the producer knows once it has seen the  *)
(* memory empty: it stays empty, and the lock stays its own, whatever the  *)
(* consumers that are still on their way do.                               *)
(***************************************************************************)
EXTENDS ProdCons, SemaphoresProofs, SequenceTheorems, TLAPS

OneProducer == \A p, q \in Producers : p = q

\* Between its test and its write the producer has the memory for itself.
EmptyForProducer == \A p \in Producers : pc[p] \in {"lock", "write"} => used = 0

PInv == MemoryOK /\ EmptyForProducer /\ LockHeld

-----------------------------------------------------------------------------
\* What fits of an item: bytes, at least one, no more than there is room for.
LEMMA CutType ==
  ASSUME NEW i \in Items
  PROVE  /\ Cut(i) \in Seq(Bytes)
         /\ Len(Cut(i)) \in 1 .. Size
PROOF
<1> DEFINE All == UNION {{x[k] : k \in DOMAIN x} : x \in Items}
<1>1. i \in Seq(All) /\ i # <<>> /\ Size \in Nat \ {0}
  BY ProdConsAssumption
<1>2. Len(i) \in Nat /\ Len(i) # 0
  BY <1>1, EmptySeq
<1> DEFINE m == IF Len(i) > Size THEN Size ELSE Len(i)
<1>3. m \in 1 .. Size /\ m <= Len(i)
  BY <1>1, <1>2
<1>4. \A k \in 1 .. m : i[k] \in Bytes
  <2> SUFFICES ASSUME NEW k \in 1 .. m PROVE i[k] \in Bytes
    OBVIOUS
  <2>1. k \in 1 .. Len(i)
    BY <1>2, <1>3
  <2>2. DOMAIN i = 1 .. Len(i)
    BY <1>1
  <2> QED
    BY <2>1, <2>2 DEF Bytes
<1> HIDE DEF m, All
<1>5. SubSeq(i, 1, m) \in Seq(Bytes) /\ Len(SubSeq(i, 1, m)) = m
  <2>1. SubSeq(i, 1, m) = [k \in 1 .. m |-> i[k]]
    BY <1>1, <1>2, <1>3
  <2>2. [k \in 1 .. m |-> i[k]] \in Seq(Bytes)
    BY <1>3, <1>4, SeqDef
  <2> QED
    BY <2>1, <2>2, <1>3
<1> QED
  BY <1>3, <1>5 DEF Cut, m

\* The memory reads back what was written into it.
LEMMA CellsHold ==
  ASSUME NEW s \in Seq(Bytes), Len(s) \in 1 .. Size,
         NEW c, c = [k \in 1 .. Size |-> IF k <= Len(s) THEN s[k] ELSE cells[k]]
  PROVE  SubSeq(c, 1, Len(s)) = s
PROOF
<1>1. SubSeq(c, 1, Len(s)) = [k \in 1 .. Len(s) |-> s[k]]
  BY ProdConsAssumption
<1> QED
  BY <1>1

-----------------------------------------------------------------------------
LEMMA InitPInv == PInit => PInv
PROOF
<1> SUFFICES ASSUME PInit PROVE PInv
  OBVIOUS
<1>1. MemoryOK
  BY ProdConsAssumption DEF PInit, MemoryOK, Bytes, Users
<1>2. EmptyForProducer /\ LockHeld
  BY DEF PInit, EmptyForProducer, LockHeld, Users
<1> QED
  BY <1>1, <1>2 DEF PInv

\* A command that moves on leaves the others where they are.
LEMMA GotoOthers ==
  ASSUME MemoryOK, NEW t \in Users, NEW from, NEW to, Goto(t, from, to)
  PROVE  /\ pc[t] = from /\ pc'[t] = to
         /\ \A u \in Users \ {t} : pc'[u] = pc[u]
PROOF
  BY DEF MemoryOK, Goto

LEMMA GotoType ==
  ASSUME MemoryOK, NEW t \in Users, NEW from,
         NEW to \in {"idle", "test", "wait", "paused", "lock", "write", "read", "signal"},
         Goto(t, from, to)
  PROVE  pc' \in [Users -> {"idle", "test", "wait", "paused", "lock", "write",
                            "read", "signal"}]
PROOF
  BY DEF MemoryOK, Goto

\* A step that leaves the memory alone, and no producer at its lock or its write
\* who was not there, keeps the invariant.
LEMMA MemoryAlone ==
  ASSUME PInv, UNCHANGED <<mp, got>>,
         item' \in [Producers -> Items],
         pc' \in [Users -> {"idle", "test", "wait", "paused", "lock", "write",
                            "read", "signal"}],
         \A p \in Producers : pc'[p] = "lock" => used = 0 \/ pc[p] = "lock",
         \A p \in Producers : pc'[p] = "write" <=> pc[p] = "write"
  PROVE  PInv'
PROOF
<1>1. UNCHANGED <<used, locked, cells, got>>
  BY DEF mp
<1>2. MemoryOK'
  BY <1>1 DEF PInv, MemoryOK, Bytes
<1>3. EmptyForProducer'
  BY <1>1 DEF PInv, EmptyForProducer
<1>4. LockHeld'
  BY <1>1 DEF PInv, LockHeld
<1> QED
  BY <1>2, <1>3, <1>4 DEF PInv

LEMMA UserPInv ==
  ASSUME PInv, OneProducer, NEW t \in Users, User(t)
  PROVE  PInv'
PROOF
<1> USE DEF PInv
<1>t. \A p \in Producers : p \in Users
  BY DEF Users
<1>i. item \in [Producers -> Items]
  BY DEF MemoryOK
<1>1. CASE Begin(t)
  <2>1. Goto(t, "idle", "test") /\ UNCHANGED <<mp, got>>
    BY <1>1 DEF Begin
  <2>2. item' \in [Producers -> Items]
    BY <1>1, <1>i DEF Begin
  <2> QED
    BY <2>1, <2>2, <1>t, MemoryAlone, GotoType, GotoOthers
<1>2. CASE Test(t)
  <2>1. UNCHANGED <<mp, got, item>>
    BY <1>2 DEF Test
  <2>2. item' \in [Producers -> Items]
    BY <2>1, <1>i
  <2>3. CASE t \in Producers /\ used # 0
    <3>1. Goto(t, "test", "wait")
      BY <1>2, <2>3, ProdConsAssumption DEF Test
    <3> QED
      BY <2>1, <2>2, <3>1, <1>t, MemoryAlone, GotoType, GotoOthers
  <2>4. CASE t \in Producers /\ used = 0
    <3>1. Goto(t, "test", "lock")
      BY <1>2, <2>4, ProdConsAssumption DEF Test
    <3> QED
      BY <2>1, <2>2, <2>4, <3>1, <1>t, MemoryAlone, GotoType, GotoOthers
  <2>5. CASE t \notin Producers
    <3>1. Goto(t, "test", "wait") \/ Goto(t, "test", "read")
      BY <1>2, <2>5, ProdConsAssumption DEF Test, Users
    <3> QED
      BY <2>1, <2>2, <2>5, <3>1, <1>t, MemoryAlone, GotoType, GotoOthers
  <2> QED
    BY <2>3, <2>4, <2>5
<1>3. CASE Wait(t)
  <2>1. UNCHANGED <<mp, got, item>>
    BY <1>3 DEF Wait
  <2>2. item' \in [Producers -> Items]
    BY <2>1, <1>i
  <2>3. CASE Goto(t, "wait", "test") \/ Goto(t, "wait", "paused")
    BY <2>1, <2>2, <2>3, <1>t, MemoryAlone, GotoType, GotoOthers
  <2>4. CASE pc[t] = "paused" /\ pc' = [pc EXCEPT ![t] = "test"]
    <3>1. pc' \in [Users -> {"idle", "test", "wait", "paused", "lock", "write",
                             "read", "signal"}]
      BY <2>4 DEF MemoryOK
    <3>2. \A p \in Producers : pc'[p] = pc[p] \/ (pc[p] = "paused" /\ pc'[p] = "test")
      BY <2>4, <1>t DEF MemoryOK
    <3> QED
      BY <2>1, <2>2, <3>1, <3>2, MemoryAlone
  <2> QED
    BY <1>3, <2>3, <2>4 DEF Wait
<1>4. CASE t \in Producers /\ Lock(t)
  <2>1. Goto(t, "lock", "write") /\ UNCHANGED <<item, used, cells, got>>
    BY <1>4 DEF Lock
  <2>2. locked' = "LOCKED_WRITE"
    BY <1>4 DEF Lock, MemoryOK
  <2>3. MemoryOK'
    BY <2>1, <2>2, GotoType DEF MemoryOK, Bytes
  <2>4. pc[t] = "lock" /\ pc'[t] = "write" /\ \A u \in Users \ {t} : pc'[u] = pc[u]
    BY <2>1, GotoOthers
  <2>5. EmptyForProducer'
    BY <2>1, <2>4, <1>t DEF EmptyForProducer
  <2>6. LockHeld'
    BY <2>2, <2>4, <1>4 DEF LockHeld
  <2> QED
    BY <2>3, <2>5, <2>6
<1>5. CASE t \in Producers /\ Write(t)
  <2> DEFINE bytes == Cut(item[t])
  <2>1. Goto(t, "write", "signal") /\ UNCHANGED <<item, got>>
    BY <1>5 DEF Write
  <2>2. pc[t] = "write" /\ pc'[t] = "signal"
    BY <2>1, GotoOthers
  <2>3. used = 0 /\ locked = "LOCKED_WRITE"
    BY <1>5, <2>2 DEF EmptyForProducer, LockHeld
  <2>4. bytes \in Seq(Bytes) /\ Len(bytes) \in 1 .. Size
    BY <1>5, <1>i, CutType
  <2>5. /\ cells' = [k \in 1 .. Size |-> IF k <= Len(bytes) THEN bytes[k] ELSE cells[k]]
        /\ used' = used + Len(bytes)
        /\ locked' = "UNLOCKED"
    BY <1>5, <2>3 DEF Write
  <2> HIDE DEF bytes
  <2>6. used' \in 0 .. Size
    BY <2>3, <2>4, <2>5, ProdConsAssumption
  <2>7. cells' \in [1 .. Size -> Bytes]
    <3> SUFFICES ASSUME NEW k \in 1 .. Size
                 PROVE  (IF k <= Len(bytes) THEN bytes[k] ELSE cells[k]) \in Bytes
      BY <2>5
    <3>1. CASE k <= Len(bytes)
      BY <2>4, <3>1, ProdConsAssumption
    <3>2. CASE ~ k <= Len(bytes)
      BY <3>2 DEF MemoryOK
    <3> QED
      BY <3>1, <3>2
  <2>8. MemoryOK'
    BY <2>1, <2>5, <2>6, <2>7, GotoType DEF MemoryOK, Bytes
  <2>9. \A p \in Producers : pc'[p] = "signal"
    BY <1>5, <2>2 DEF OneProducer
  <2> QED
    BY <2>5, <2>8, <2>9 DEF EmptyForProducer, LockHeld
<1>6. CASE t \in Consumers /\ Read(t)
  <2>1. Goto(t, "read", "signal") /\ UNCHANGED <<item, cells>>
    BY <1>6 DEF Read
  <2>2. \A p \in Producers : pc'[p] = pc[p]
    BY <2>1, <1>6, <1>t, GotoOthers, ProdConsAssumption
  <2>3. CASE locked = "LOCKED_WRITE"
    <3>1. UNCHANGED <<used, locked, got>>
      BY <1>6, <2>3 DEF Read
    <3>2. MemoryOK'
      BY <2>1, <3>1, GotoType DEF MemoryOK, Bytes
    <3> QED
      BY <2>2, <3>1, <3>2 DEF EmptyForProducer, LockHeld
  <2>4. CASE locked # "LOCKED_WRITE"
    <3> DEFINE count == IF Size > used THEN used ELSE Size
    <3>1. /\ got' = IF used # 0 THEN SubSeq(cells, 1, count) ELSE got
          /\ used' = used - count
          /\ locked' = "UNLOCKED"
      BY <1>6, <2>4 DEF Read
    <3>2. count = used
      BY ProdConsAssumption DEF MemoryOK
    <3>3. used' = 0
      BY <3>1, <3>2 DEF MemoryOK
    <3>4. got' \in Seq(Bytes) \union {NoItem}
      <4>1. CASE used = 0
        BY <4>1, <3>1 DEF MemoryOK
      <4>2. CASE used # 0
        <5>1. used \in 1 .. Size /\ cells \in [1 .. Size -> Bytes]
          BY <4>2, ProdConsAssumption DEF MemoryOK
        <5>2. SubSeq(cells, 1, used) = [k \in 1 .. used |-> cells[k]]
          BY <5>1, ProdConsAssumption
        <5>3. [k \in 1 .. used |-> cells[k]] \in Seq(Bytes)
          BY <5>1, ProdConsAssumption, SeqDef
        <5> QED
          BY <3>1, <3>2, <4>2, <5>2, <5>3
      <4> QED
        BY <4>1, <4>2
    <3>5. MemoryOK'
      BY <2>1, <3>1, <3>3, <3>4, GotoType, ProdConsAssumption DEF MemoryOK, Bytes
    <3>6. \A p \in Producers : pc[p] # "write"
      BY <2>4 DEF LockHeld
    <3> QED
      BY <2>2, <3>1, <3>3, <3>5, <3>6 DEF EmptyForProducer, LockHeld
  <2> QED
    BY <2>3, <2>4
<1>7. CASE Done(t)
  <2>1. Goto(t, "signal", "idle") /\ UNCHANGED <<mp, got, item>>
    BY <1>7 DEF Done
  <2> QED
    BY <2>1, <1>i, <1>t, MemoryAlone, GotoType, GotoOthers
<1> QED
  BY <1>1, <1>2, <1>3, <1>4, <1>5, <1>6, <1>7 DEF User

LEMMA NextPInv ==
  ASSUME PInv, OneProducer, [PNext]_pvars
  PROVE  PInv'
PROOF
<1>1. CASE Others \/ UNCHANGED pvars
  <2>1. UNCHANGED <<pc, item, used, locked, cells, got>>
    BY <1>1 DEF Others, pvars, mp
  <2> QED
    BY <2>1 DEF PInv, MemoryOK, EmptyForProducer, LockHeld, Bytes
<1>2. CASE \E t \in Users : User(t)
  BY <1>2, UserPInv
<1> QED
  BY <1>1, <1>2 DEF PNext

\* With one producer the invariant holds in every reachable state, for any
\* number of consumers, and whatever happens to the semaphore.
THEOREM MailboxInvariant ==
  ASSUME OneProducer
  PROVE  PSpec => []PInv
PROOF
<1>1. PInit => PInv
  BY InitPInv
<1>2. PInv /\ [PNext]_pvars => PInv'
  BY NextPInv
<1> QED
  BY <1>1, <1>2, PTL DEF PSpec

\* What put writes never adds up to more than the shared memory holds.
THEOREM MemoryBounded ==
  ASSUME OneProducer
  PROVE  PSpec => []MemoryOK
PROOF
<1>1. PInv => MemoryOK
  BY DEF PInv
<1> QED
  BY <1>1, MailboxInvariant, PTL

\* put never writes without the lock, and no consumer gives the lock back.
THEOREM ProducerHasLock ==
  ASSUME OneProducer
  PROVE  PSpec => []LockHeld
PROOF
<1>1. PInv => LockHeld
  BY DEF PInv
<1> QED
  BY <1>1, MailboxInvariant, PTL

-----------------------------------------------------------------------------
\* What the memory holds, as the mailbox sees it.
Mailbox == IF used = 0 THEN <<>> ELSE <<SubSeq(cells, 1, used)>>

LEMMA Singleton ==
  ASSUME NEW x
  PROVE  <<x>> # <<>> /\ Head(<<x>>) = x /\ Tail(<<x>>) = <<>>
PROOF
<1>1. Len(<<x>>) = 1 /\ <<x>> \in Seq({x}) /\ <<x>>[1] = x
  OBVIOUS
<1>2. Tail(<<x>>) \in Seq({x}) /\ Len(Tail(<<x>>)) = 0
  BY <1>1
<1> QED
  BY <1>1, <1>2, EmptySeq

LEMMA StepIsExchange ==
  ASSUME PInv, PInv', OneProducer, [PNext]_pvars
  PROVE  [Fifo!Exchange]_<<Mailbox, got>>
PROOF
<1> USE DEF PInv
<1>e. Fifo!Exchange <=> (\E m \in {Cut(i) : i \in Items} : Fifo!Put(m)) \/ Fifo!Take
  BY DEF Fifo!Exchange
<1>s. ASSUME UNCHANGED <<mp, got>>
      PROVE  UNCHANGED <<Mailbox, got>>
  BY <1>s DEF mp, Mailbox
<1>1. CASE Others \/ UNCHANGED pvars
  BY <1>1, <1>s DEF Others, pvars
<1>2. ASSUME NEW t \in Users, Begin(t) \/ Test(t) \/ Wait(t) \/ Done(t)
      PROVE  UNCHANGED <<Mailbox, got>>
  BY <1>2, <1>s DEF Begin, Test, Wait, Done
<1>3. ASSUME NEW t \in Producers, Lock(t)
      PROVE  UNCHANGED <<Mailbox, got>>
  BY <1>3 DEF Lock, Mailbox
<1>4. ASSUME NEW t \in Producers, Write(t)
      PROVE  Fifo!Exchange
  <2> DEFINE bytes == Cut(item[t])
  <2>1. pc[t] = "write" /\ UNCHANGED got
    BY <1>4 DEF Write, Goto
  <2>2. used = 0 /\ locked = "LOCKED_WRITE"
    BY <2>1 DEF EmptyForProducer, LockHeld
  <2>3. item[t] \in Items
    BY DEF MemoryOK
  <2>4. bytes \in Seq(Bytes) /\ Len(bytes) \in 1 .. Size
    BY <2>3, CutType
  <2>5. /\ cells' = [k \in 1 .. Size |-> IF k <= Len(bytes) THEN bytes[k] ELSE cells[k]]
        /\ used' = used + Len(bytes)
    BY <1>4, <2>2 DEF Write
  <2>6. bytes \in {Cut(i) : i \in Items}
    BY <2>3
  <2> HIDE DEF bytes
  <2>7. SubSeq(cells', 1, Len(bytes)) = bytes
    BY <2>4, <2>5, CellsHold
  <2>8. used' = Len(bytes) /\ used' # 0
    BY <2>2, <2>4, <2>5
  <2>9. Mailbox = <<>> /\ Mailbox' = <<bytes>>
    BY <2>2, <2>7, <2>8 DEF Mailbox
  <2>10. Append(<<>>, bytes) = <<bytes>> /\ Len(<<>>) = 0
    OBVIOUS
  <2>11. Fifo!Put(bytes)
    BY <2>1, <2>2, <2>7, <2>8, <2>10 DEF Fifo!Put
  <2>12. \E m \in {Cut(i) : i \in Items} : Fifo!Put(m)
    BY <2>6, <2>11, Zenon
  <2> QED
    BY <1>e, <2>12, Zenon
<1>5. ASSUME NEW t \in Consumers, Read(t)
      PROVE  Fifo!Exchange \/ UNCHANGED <<Mailbox, got>>
  <2> DEFINE count == IF Size > used THEN used ELSE Size
  <2>1. count = used /\ UNCHANGED cells
    BY <1>5, ProdConsAssumption DEF MemoryOK, Read
  <2>2. CASE locked = "LOCKED_WRITE"
    BY <1>5, <2>2 DEF Read, Mailbox
  <2>3. CASE locked # "LOCKED_WRITE"
    <3>1. /\ got' = IF used # 0 THEN SubSeq(cells, 1, count) ELSE got
          /\ used' = used - count
      BY <1>5, <2>3 DEF Read
    <3> HIDE DEF count
    <3>2. used' = 0
      BY <2>1, <3>1 DEF MemoryOK
    <3>3. CASE used = 0
      BY <2>1, <3>1, <3>2, <3>3 DEF Mailbox
    <3>4. CASE used # 0
      <4>1. Mailbox = <<SubSeq(cells, 1, used)>> /\ Mailbox' = <<>>
        BY <3>2, <3>4 DEF Mailbox
      <4>2. /\ Mailbox # <<>>
            /\ Head(Mailbox) = SubSeq(cells, 1, used)
            /\ Tail(Mailbox) = <<>>
        BY <4>1, Singleton
      <4>3. Fifo!Take
        BY <2>1, <3>1, <3>4, <4>1, <4>2 DEF Fifo!Take, Mailbox
      <4> QED
        BY <4>3, <1>e
    <3> QED
      BY <3>3, <3>4
  <2> QED
    BY <2>2, <2>3
<1> QED
  BY <1>1, <1>2, <1>3, <1>4, <1>5 DEF PNext, User

\* With one producer the shared memory implements the mailbox: items are consumed
\* once, whole and in order, for items and memories of any size and any number
\* of consumers.
THEOREM MailboxIsFifo ==
  ASSUME OneProducer
  PROVE  PSpec => ItemsInOrder
PROOF
<1>1. PInit => Fifo!Init
  BY DEF PInit, Fifo!Init
<1>2. PInv /\ PInv' /\ [PNext]_pvars => [Fifo!Exchange]_Fifo!fifoVars
  BY StepIsExchange DEF Mailbox, Fifo!fifoVars
<1> QED
  BY <1>1, <1>2, MailboxInvariant, PTL DEF PSpec, ItemsInOrder, Fifo!ExchangeSpec

-----------------------------------------------------------------------------
\* What the commands and the others do to the semaphore are steps of it.
LEMMA StepUsesSemaphore == [PNext]_pvars => [AnyStep]_vars
PROOF
<1> SUFFICES ASSUME [PNext]_pvars PROVE [AnyStep]_vars
  OBVIOUS
<1>1. ASSUME NEW t \in Users, User(t)
      PROVE  [AnyStep]_vars
  <2>1. t \in Tasks
    BY ProdConsAssumption DEF Users
  <2>2. CASE Wait(t)
    BY <2>1, <2>2 DEF Wait, AnyStep
  <2>3. CASE Done(t)
    BY <2>1, <2>3 DEF Done, AnyStep
  <2>4. CASE Begin(t) \/ Test(t) \/ Lock(t) \/ Write(t) \/ Read(t)
    BY <2>4 DEF Begin, Test, Lock, Write, Read, semaphore
  <2> QED
    BY <1>1, <2>2, <2>3, <2>4 DEF User
<1>2. CASE Others
  BY <1>2, SemaphoresAssumption DEF Others, AnyStep
<1>3. CASE UNCHANGED pvars
  BY <1>3 DEF pvars, semaphore
<1> QED
  BY <1>1, <1>2, <1>3 DEF PNext

\* The semaphore keeps its promise to those in its queue under the commands too:
\* whatever they and the operators do to each other, the entry of a task that
\* stays paused keeps its place or moves up with a signal.
THEOREM CommandsSignalled == PSpec => SignalsInOrder
PROOF
<1>1. PInit => TypeOK
  BY InitAccounted DEF PInit
<1>2. TypeOK /\ [PNext]_pvars => TypeOK'
  BY StepUsesSemaphore, TypeStep
<1>3. TypeOK /\ [PNext]_pvars => [KeepsOrder]_vars
  BY StepUsesSemaphore, OrderStep
<1>4. SignalsInOrder <=> [][KeepsOrder]_vars
  BY DEF SignalsInOrder, KeepsOrder
<1> QED
  BY <1>1, <1>2, <1>3, <1>4, PTL DEF PSpec

=============================================================================
