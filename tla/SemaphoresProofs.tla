--------------------------- MODULE SemaphoresProofs ---------------------------
(* Type correctness of the semaphore for every instance, that the paused     *)
(* tasks that are forgotten are those that wait for themselves and those     *)
(* whose entry a full queue dropped, and that none is dropped as long as the *)
(* entries fit into the queue.                                               *)
EXTENDS Semaphores, FiniteSetTheorems, TLAPS

\* Any use of the semaphore by its tasks: whoever signals, waits for whomever.
\* What is proved of its steps holds of the systems that it is a part of.
AnyStep ==
  \E t \in Tasks :
    \/ Take(t) \/ Enqueue(t) \/ Signal(t) \/ SleepOver(t) \/ WakeUp(t)
    \/ \E who \in Tasks : Pause(t, who) \/ Sleep(t, who)

\* The tasks of Semaphores use it so.
LEMMA NextIsAny == [Next]_vars => [AnyStep]_vars
  BY SemaphoresAssumption DEF Next, AnyStep

\* Appending to the queue and taking its head: what stays in it.
LEMMA QueueFacts ==
  ASSUME queue \in Seq(Tasks)
  PROVE  /\ \A t \in Tasks : /\ Append(queue, t) \in Seq(Tasks)
                             /\ Len(Append(queue, t)) = Len(queue) + 1
                             /\ \A i \in DOMAIN queue : Append(queue, t)[i] = queue[i]
                             /\ DOMAIN queue \subseteq DOMAIN Append(queue, t)
                             /\ Append(queue, t)[Len(queue) + 1] = t
                             /\ Len(queue) + 1 \in DOMAIN Append(queue, t)
         /\ queue # <<>> =>
              /\ Head(queue) \in Tasks /\ Head(queue) = queue[1]
              /\ Tail(queue) \in Seq(Tasks)
              /\ Len(Tail(queue)) = Len(queue) - 1
              /\ \A i \in DOMAIN queue : i # 1 =>
                   i - 1 \in DOMAIN Tail(queue) /\ Tail(queue)[i - 1] = queue[i]
  OBVIOUS

\* Every step keeps the types.
LEMMA TypeStep == TypeOK /\ [AnyStep]_vars => TypeOK'
<1> SUFFICES ASSUME TypeOK, [AnyStep]_vars PROVE TypeOK'
  OBVIOUS
<1> USE SemaphoresAssumption DEF TypeOK
<1>1. ASSUME NEW t \in Tasks, Take(t) PROVE TypeOK'
  BY <1>1 DEF Take
<1>2. ASSUME NEW t \in Tasks, Enqueue(t) PROVE TypeOK'
  <2>1. /\ pending[t] \in Tasks
        /\ queue' = (IF Len(queue) < MaxQueue THEN Append(queue, pending[t]) ELSE queue)
        /\ pending' = [pending EXCEPT ![t] = NoTask] /\ value' = value /\ state' = state
    BY <1>2 DEF Enqueue
  <2>2. dropped' \subseteq Tasks
    BY <1>2, <2>1 DEF Enqueue, NoRoomFor
  <2>3. QED BY <2>1, <2>2, QueueFacts
<1>3. ASSUME NEW t \in Tasks, SleepOver(t) PROVE TypeOK'
  BY <1>3 DEF SleepOver
<1>4. ASSUME NEW t \in Tasks, WakeUp(t) PROVE TypeOK'
  BY <1>4 DEF WakeUp
<1>5. ASSUME NEW t \in Tasks, Signal(t) PROVE TypeOK'
  <2>1. CASE queue = <<>>
    BY <1>5, <2>1 DEF Signal
  <2>2. CASE queue # <<>>
    <3>1. Tail(queue) \in Seq(Tasks) /\ Len(Tail(queue)) = Len(queue) - 1
      BY <2>2, QueueFacts
    <3>2. Len(queue) \in Nat
      OBVIOUS
    <3>3. /\ queue' = Tail(queue) /\ value' = value /\ pending' = pending
          /\ dropped' \subseteq Tasks
      BY <1>5, <2>2 DEF Signal
    <3>4. state' = [state EXCEPT ![Head(queue)] = "RUNNING"]
      BY <1>5, <2>2 DEF Signal
    <3>5. queue' \in Seq(Tasks) /\ Len(queue') <= MaxQueue
      BY <3>1, <3>2, <3>3
    <3>6. QED BY <3>3, <3>4, <3>5
  <2>3. QED BY <2>1, <2>2
<1>6. ASSUME NEW t \in Tasks, NEW who \in Tasks, Pause(t, who) PROVE TypeOK'
  BY <1>6 DEF Pause
<1>7. ASSUME NEW t \in Tasks, NEW who \in Tasks, Sleep(t, who) PROVE TypeOK'
  BY <1>7 DEF Sleep
<1>8. CASE UNCHANGED vars
  BY <1>8 DEF vars
<1>9. QED BY <1>1, <1>2, <1>3, <1>4, <1>5, <1>6, <1>7, <1>8 DEF AnyStep

\* Type correctness: in particular the value is never taken below 0.
THEOREM SemTypeCorrect == Spec => []TypeOK
<1>1. Init => TypeOK
  BY SemaphoresAssumption DEF Init, TypeOK
<1>2. QED BY <1>1, TypeStep, NextIsAny, PTL DEF Spec

-----------------------------------------------------------------------------
\* The tasks on their way into the queue are finitely many.
LEMMA OnTheirWayFinite ==
  IsFiniteSet(OnTheirWay) /\ Cardinality(OnTheirWay) \in Nat
<1>1. OnTheirWay \in SUBSET Tasks
  BY DEF OnTheirWay
<1>2. QED BY <1>1, FS_Subset, FS_CardinalityType, SemaphoresAssumption

\* A task that takes the queue's path adds itself to those on their way.
LEMMA PauseCount ==
  ASSUME TypeOK, NEW t \in Tasks, NEW who \in Tasks, Pause(t, who)
  PROVE  Cardinality(OnTheirWay)' = Cardinality(OnTheirWay) + 1
<1>1. OnTheirWay' = OnTheirWay \union {t}
  BY SemaphoresAssumption DEF OnTheirWay, Pause, TypeOK
<1>2. t \notin OnTheirWay
  BY DEF OnTheirWay, Pause, Runs
<1>3. QED BY <1>1, <1>2, OnTheirWayFinite, FS_AddElement

\* A task that enqueues is not on its way any more.
LEMMA EnqueueCount ==
  ASSUME TypeOK, NEW t \in Tasks, Enqueue(t)
  PROVE  Cardinality(OnTheirWay)' = Cardinality(OnTheirWay) - 1
<1>1. OnTheirWay' = OnTheirWay \ {t}
  BY SemaphoresAssumption DEF OnTheirWay, Enqueue, TypeOK
<1>2. t \in OnTheirWay
  BY DEF OnTheirWay, Enqueue
<1>3. QED BY <1>1, <1>2, OnTheirWayFinite, FS_RemoveElement

\* Every step keeps the entries within the bound.
LEMMA RoomStep == TypeOK /\ Room /\ [AnyStep]_vars => Room'
<1> SUFFICES ASSUME TypeOK, Room, [AnyStep]_vars PROVE Room'
  OBVIOUS
<1> USE SemaphoresAssumption DEF TypeOK, Room
<1>a. Len(queue) \in Nat /\ Cardinality(OnTheirWay) \in Nat
  BY OnTheirWayFinite
<1>b. ASSUME pending' = pending, queue' = queue PROVE Room'
  BY <1>b DEF OnTheirWay
<1>1. ASSUME NEW t \in Tasks, Enqueue(t) PROVE Room'
  <2>1. Len(queue') \in {Len(queue), Len(queue) + 1}
    BY <1>1, QueueFacts DEF Enqueue
  <2>2. QED BY <2>1, <1>1, <1>a, EnqueueCount
<1>2. ASSUME NEW t \in Tasks, Signal(t) PROVE Room'
  <2>1. Len(queue') \in {Len(queue), Len(queue) - 1}
    BY <1>2, QueueFacts DEF Signal
  <2>2. OnTheirWay' = OnTheirWay
    BY <1>2 DEF Signal, OnTheirWay
  <2>3. QED BY <2>1, <2>2, <1>a
<1>3. ASSUME NEW t \in Tasks, NEW who \in Tasks, Pause(t, who) PROVE Room'
  <2>1. Cardinality(OnTheirWay)' = Cardinality(OnTheirWay) + 1
    BY <1>3, PauseCount
  <2>2. queue' = queue /\ Len(queue) + Cardinality(OnTheirWay) < MaxEntries
    BY <1>3 DEF Pause
  <2>3. QED BY <2>1, <2>2, <1>a
<1>4. QED
  BY <1>b, <1>1, <1>2, <1>3 DEF AnyStep, vars, Take, SleepOver, WakeUp, Sleep

\* A paused task that is not out of reach is in the queue or on its way there,
\* after every step.
LEMMA AccountedStep ==
  TypeOK /\ PausedIsAccounted /\ [AnyStep]_vars => PausedIsAccounted'
<1> SUFFICES ASSUME TypeOK, PausedIsAccounted, [AnyStep]_vars,
                    NEW p \in Tasks, state'[p] = "PAUSED"
             PROVE  \/ \E i \in DOMAIN queue' : queue'[i] = p
                    \/ \E c \in Tasks : pending'[c] = p
                    \/ p \in dropped'
  BY DEF PausedIsAccounted, OutOfReach
<1> DEFINE Accounted == \/ \E i \in DOMAIN queue' : queue'[i] = p
                        \/ \E c \in Tasks : pending'[c] = p
                        \/ p \in dropped'
<1> USE SemaphoresAssumption DEF TypeOK
<1>b. state[p] = "PAUSED" => \/ \E i \in DOMAIN queue : queue[i] = p
                             \/ \E c \in Tasks : pending[c] = p
                             \/ p \in dropped
  BY DEF PausedIsAccounted, OutOfReach
<1>a. ASSUME pending' = pending, queue' = queue, state[p] = "PAUSED", dropped \ {p} = dropped' \ {p},
             p \in dropped => p \in dropped'
      PROVE  Accounted
  BY <1>a, <1>b
<1>1. ASSUME NEW t \in Tasks, Enqueue(t) PROVE Accounted
  <2>1. /\ pending[t] \in Tasks /\ state' = state
        /\ pending' = [pending EXCEPT ![t] = NoTask]
        /\ dropped' = dropped \union NoRoomFor(t)
    BY <1>1 DEF Enqueue
  <2>2. CASE pending[t] = p
    <3>1. CASE Len(queue) < MaxQueue
      <4>1. queue' = Append(queue, pending[t])
        BY <1>1, <3>1 DEF Enqueue
      <4>2. QED BY <4>1, <2>1, <2>2, QueueFacts
    <3>2. CASE ~(Len(queue) < MaxQueue)
      <4>1. Len(queue) >= MaxQueue
        BY <3>2
      <4>2. p \in NoRoomFor(t)
        BY <4>1, <2>1, <2>2 DEF NoRoomFor
      <4>3. QED BY <4>2, <2>1
    <3>3. QED BY <3>1, <3>2
  <2>3. CASE pending[t] # p
    <3>1. queue' = queue \/ queue' = Append(queue, pending[t])
      BY <1>1 DEF Enqueue
    <3>2. (\E i \in DOMAIN queue : queue[i] = p) => \E i \in DOMAIN queue' : queue'[i] = p
      BY <3>1, <2>1, QueueFacts
    <3>3. (\E c \in Tasks : pending[c] = p) => \E c \in Tasks : pending'[c] = p
      BY <2>1, <2>3
    <3>4. QED BY <3>2, <3>3, <2>1, <1>b
  <2>4. QED BY <2>2, <2>3
<1>2. ASSUME NEW t \in Tasks, Signal(t) PROVE Accounted
  <2>1. CASE queue = <<>>
    BY <1>a, <1>2, <2>1 DEF Signal
  <2>2. CASE queue # <<>>
    <3>1. /\ state' = [state EXCEPT ![Head(queue)] = "RUNNING"]
          /\ queue' = Tail(queue) /\ pending' = pending /\ dropped' = dropped \ {Head(queue)}
      BY <1>2, <2>2 DEF Signal
    <3>2. p # Head(queue) /\ state[p] = "PAUSED"
      BY <3>1, <2>2, QueueFacts
    <3>3. CASE (\E c \in Tasks : pending[c] = p) \/ p \in dropped
      BY <3>1, <3>2, <3>3
    <3>4. CASE \E i \in DOMAIN queue : queue[i] = p
      <4>1. PICK i \in DOMAIN queue : queue[i] = p
        BY <3>4
      <4>2. i # 1
        BY <4>1, <3>2, <2>2, QueueFacts
      <4>3. i - 1 \in DOMAIN Tail(queue) /\ Tail(queue)[i - 1] = p
        BY <4>1, <4>2, <2>2, QueueFacts
      <4>4. QED BY <4>3, <3>1
    <3>5. QED BY <3>2, <3>3, <3>4, <1>b
  <2>3. QED BY <2>1, <2>2
<1>3. ASSUME NEW t \in Tasks, NEW who \in Tasks, Pause(t, who) PROVE Accounted
  <2>1. /\ state' = [state EXCEPT ![who] = "PAUSED"] /\ queue' = queue
        /\ pending' = [pending EXCEPT ![t] = who] /\ pending[t] = NoTask
        /\ who \in Tasks /\ dropped' = dropped \ {who}
    BY <1>3 DEF Pause, Runs
  <2>2. CASE p = who
    BY <2>1, <2>2
  <2>3. CASE p # who
    <3>1. state[p] = "PAUSED"
      BY <2>1, <2>3
    <3>2. CASE \E c \in Tasks : pending[c] = p
      <4>1. PICK c \in Tasks : pending[c] = p
        BY <3>2
      <4>2. c # t
        BY <4>1, <2>1
      <4>3. QED BY <4>1, <4>2, <2>1
    <3>3. QED BY <2>1, <2>3, <3>1, <3>2, <1>b
  <2>4. QED BY <2>2, <2>3
<1>4. ASSUME NEW t \in Tasks, Take(t) PROVE Accounted
  BY <1>4, <1>a DEF Take
<1>5. ASSUME NEW t \in Tasks, SleepOver(t) PROVE Accounted
  BY <1>5, <1>a DEF SleepOver
<1>6. ASSUME NEW t \in Tasks, WakeUp(t) PROVE Accounted
  <2>1. p # t /\ state[p] = "PAUSED"
    BY <1>6 DEF WakeUp
  <2>2. QED BY <2>1, <1>6, <1>b DEF WakeUp
<1>7. ASSUME NEW t \in Tasks, NEW who \in Tasks, Sleep(t, who) PROVE Accounted
  <2>1. p # who /\ state[p] = "PAUSED"
    BY <1>7 DEF Sleep
  <2>2. QED BY <2>1, <1>7, <1>b DEF Sleep
<1>8. CASE UNCHANGED vars
  BY <1>8, <1>a DEF vars
<1>9. QED BY <1>1, <1>2, <1>3, <1>4, <1>5, <1>6, <1>7, <1>8 DEF AnyStep

\* Nobody waits at first.
LEMMA InitAccounted == Init => TypeOK /\ Room /\ PausedIsAccounted
<1> SUFFICES ASSUME Init PROVE TypeOK /\ Room /\ PausedIsAccounted
  OBVIOUS
<1>1. OnTheirWay = {}
  BY DEF Init, OnTheirWay
<1>2. Cardinality(OnTheirWay) = 0 /\ Len(queue) = 0
  BY <1>1, FS_EmptySet DEF Init
<1>3. QED
  BY <1>2, SemaphoresAssumption DEF Init, TypeOK, Room, PausedIsAccounted

\* The only paused tasks that are forgotten are those that wait for themselves
\* and those that a full queue dropped, for any number of tasks and entries.
THEOREM NobodyElseForgotten == Spec => []PausedIsAccounted
<1>1. TypeOK /\ PausedIsAccounted /\ [Next]_vars => (TypeOK /\ PausedIsAccounted)'
  BY TypeStep, AccountedStep, NextIsAny
<1>2. QED BY <1>1, InitAccounted, PTL DEF Spec

\* While the entries fit into the queue, none is dropped.
THEOREM NothingDropped ==
  ASSUME MaxEntries <= MaxQueue
  PROVE  Spec => [](dropped = {})
<1>1. TypeOK /\ Room /\ dropped = {} /\ [AnyStep]_vars => dropped' = {}
  <2> SUFFICES ASSUME TypeOK, Room, dropped = {}, [AnyStep]_vars PROVE dropped' = {}
    OBVIOUS
  <2>1. ASSUME NEW t \in Tasks, Enqueue(t) PROVE dropped' = {}
    <3>1. Cardinality(OnTheirWay) \in Nat /\ Cardinality(OnTheirWay)' \in Nat
      <4>1. OnTheirWay' \in SUBSET Tasks
        BY DEF OnTheirWay
      <4>2. QED BY <4>1, OnTheirWayFinite, FS_Subset, FS_CardinalityType, SemaphoresAssumption
    <3>2. Cardinality(OnTheirWay)' = Cardinality(OnTheirWay) - 1
      BY <2>1, EnqueueCount
    <3>3. Len(queue) \in Nat /\ MaxQueue \in Nat /\ MaxEntries \in Nat
      BY SemaphoresAssumption DEF TypeOK
    <3>4. ~(Len(queue) >= MaxQueue)
      BY <3>1, <3>2, <3>3 DEF Room
    <3>5. NoRoomFor(t) = {}
      BY <3>4 DEF NoRoomFor
    <3>6. QED BY <2>1, <3>5 DEF Enqueue
  <2>2. QED BY <2>1 DEF AnyStep, vars, Take, Pause, Sleep, Signal, SleepOver, WakeUp
<1>2. TypeOK /\ Room /\ dropped = {} /\ [Next]_vars => (TypeOK /\ Room /\ dropped = {})'
  BY <1>1, TypeStep, RoomStep, NextIsAny
<1>3. Init => dropped = {}
  BY DEF Init
<1>4. QED BY <1>2, <1>3, InitAccounted, PTL DEF Spec

-----------------------------------------------------------------------------
\* The entry of a task that stays paused keeps its place or moves up with a
\* signal in every step.
KeepsOrder ==
  \A t \in Tasks, i \in DOMAIN queue :
    queue[i] = t /\ state[t] = "PAUSED" /\ state'[t] = "PAUSED" =>
      \/ queue' = Tail(queue) /\ i > 1 /\ value' = value
      \/ i \in DOMAIN queue' /\ queue'[i] = t /\ value' <= value

LEMMA OrderStep == TypeOK /\ [AnyStep]_vars => KeepsOrder
<1> SUFFICES ASSUME TypeOK, [AnyStep]_vars, NEW t \in Tasks, NEW i \in DOMAIN queue,
                    queue[i] = t, state[t] = "PAUSED", state'[t] = "PAUSED"
             PROVE  \/ queue' = Tail(queue) /\ i > 1 /\ value' = value
                    \/ i \in DOMAIN queue' /\ queue'[i] = t /\ value' <= value
  BY DEF KeepsOrder
<1>1. queue \in Seq(Tasks) /\ value \in Nat
  BY DEF TypeOK
<1>2. i \in Nat /\ i >= 1 /\ queue # <<>>
  BY <1>1
<1>3. ASSUME queue' = queue, value' <= value
      PROVE  i \in DOMAIN queue' /\ queue'[i] = t /\ value' <= value
  BY <1>3
<1>4. ASSUME NEW u \in Tasks, Take(u) PROVE queue' = queue /\ value' <= value
  BY <1>1, <1>4 DEF Take
<1>5. ASSUME NEW u \in Tasks, Enqueue(u)
      PROVE  i \in DOMAIN queue' /\ queue'[i] = t /\ value' <= value
  <2>1. /\ value' = value /\ pending[u] \in Tasks
        /\ queue' = queue \/ queue' = Append(queue, pending[u])
    BY <1>5 DEF Enqueue, TypeOK
  <2>2. QED BY <1>1, <2>1, QueueFacts
<1>6. ASSUME NEW u \in Tasks, Signal(u)
      PROVE  queue' = Tail(queue) /\ i > 1 /\ value' = value
  <2>1. /\ queue' = Tail(queue) /\ value' = value
        /\ state' = [state EXCEPT ![Head(queue)] = "RUNNING"]
    BY <1>2, <1>6 DEF Signal
  <2>2. t # Head(queue)
    BY <2>1 DEF TypeOK
  <2>3. i # 1
    BY <1>1, <1>2, <2>2, QueueFacts
  <2>4. QED BY <1>2, <2>1, <2>3
<1>7. ASSUME NEW u \in Tasks,
             \/ SleepOver(u) \/ WakeUp(u)
             \/ \E who \in Tasks : Pause(u, who) \/ Sleep(u, who)
      PROVE  queue' = queue /\ value' <= value
  <2>1. queue' = queue /\ value' = value
    BY <1>7 DEF SleepOver, WakeUp, Pause, Sleep
  <2>2. QED BY <1>1, <2>1
<1>8. CASE UNCHANGED vars
  <2>1. queue' = queue /\ value' = value
    BY <1>8 DEF vars
  <2>2. QED BY <1>1, <1>3, <2>1
<1>9. QED BY <1>3, <1>4, <1>5, <1>6, <1>7, <1>8 DEF AnyStep

\* The entry of a task that stays paused keeps its place or moves up with a
\* signal, whoever runs in between, for any number of tasks and capacities.
THEOREM SignalsReachWaiters == Spec => SignalsInOrder
<1>1. TypeOK /\ [Next]_vars => KeepsOrder
  BY OrderStep, NextIsAny
<1>2. SignalsInOrder <=> [][KeepsOrder]_vars
  BY DEF SignalsInOrder, KeepsOrder
<1>3. QED BY <1>1, <1>2, SemTypeCorrect, PTL DEF Spec

=============================================================================
