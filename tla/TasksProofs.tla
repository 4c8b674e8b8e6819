----------------------------- MODULE TasksProofs -----------------------------
(* Proofs about Tasks: IndInv is inductive for every number of consoles and  *)
(* programs, and the safety properties follow from it.                      *)
EXTENDS Tasks, WellFoundedInduction, TLAPS

-----------------------------------------------------------------------------
(* The scheduler *)

\* What task_next does, whatever states st and times lf the caller leaves: the
\* CPU goes to a task of the list that is running, or to null_task, and the
\* only tasks whose state it changes are sleepers that are due.
LEMMA SwitchFacts ==
  ASSUME TypeOK, ListOK,
         NEW st \in [TaskSet -> States], NEW lf \in [TaskSet -> Nat],
         Switch(st, lf)
  PROVE  /\ current' \in TaskSet
         /\ InRing(current')
         /\ quantum' = Quantum
         /\ state' \in [TaskSet -> States]
         /\ \A t \in TaskSet :
              \/ state'[t] = st[t]
              \/ st[t] = "SLEEPING" /\ lf[t] = 0 /\ state'[t] = "RUNNING"
         /\ current' = NullTask \/ (current' # current /\ st[current'] = "RUNNING")
  <1> DEFINE Scanned(i, j) == ring[After(i, j)]
             Stop(i, j)    == st[Scanned(i, j)] = "RUNNING" \/ Scanned(i, j) = current
             Due(i, k, t)  == /\ st[t] = "SLEEPING" /\ lf[t] = 0
                              /\ \E j \in 1 .. k - 1 : Scanned(i, j) = t
  <1>1. PICK i \in DOMAIN ring, k \in DOMAIN ring :
          /\ Stop(i, k)
          /\ current' = IF Scanned(i, k) = current THEN NullTask ELSE Scanned(i, k)
          /\ state' = [t \in TaskSet |-> IF Due(i, k, t) THEN "RUNNING" ELSE st[t]]
          /\ quantum' = Quantum
    BY DEF Switch
  <1>2. ring \in Seq(TaskSet)
    BY DEF TypeOK
  <1>3. After(i, k) \in DOMAIN ring
    BY <1>2 DEF After
  <1>4. Scanned(i, k) \in TaskSet /\ InRing(Scanned(i, k))
    BY <1>2, <1>3 DEF InRing
  <1>5. NullTask \in TaskSet /\ InRing(NullTask)
    BY DEF TaskSet, ListOK
  <1>6. state' \in [TaskSet -> States]
    BY <1>1 DEF States
  <1>7. \A t \in TaskSet :
          \/ state'[t] = st[t]
          \/ st[t] = "SLEEPING" /\ lf[t] = 0 /\ state'[t] = "RUNNING"
    BY <1>1
  <1>8. QED
    <2> HIDE DEF Scanned
    <2>1. CASE Scanned(i, k) = current
      BY <2>1, <1>1, <1>5, <1>6, <1>7
    <2>2. CASE Scanned(i, k) # current
      BY <2>2, <1>1, <1>4, <1>6, <1>7
    <2>3. QED BY <2>1, <2>2

-----------------------------------------------------------------------------
(* The list *)

\* task_add puts one task at the end of the list.
LEMMA AppendFacts ==
  ASSUME NEW p \in TaskSet, ring \in Seq(TaskSet), ring' = Append(ring, p)
  PROVE  /\ ring' \in Seq(TaskSet)
         /\ \A t \in TaskSet : InRing(t)' <=> (InRing(t) \/ t = p)
         /\ (\A i, j \in DOMAIN ring : ring[i] = ring[j] => i = j) /\ ~InRing(p)
              => (\A i, j \in DOMAIN ring' : ring'[i] = ring'[j] => i = j)
  <1>1. ring' \in Seq(TaskSet) /\ Len(ring') = Len(ring) + 1
    OBVIOUS
  <1>2. DOMAIN ring = 1 .. Len(ring) /\ DOMAIN ring' = 1 .. Len(ring) + 1 /\ Len(ring) \in Nat
    BY <1>1
  <1>3. /\ \A i \in 1 .. Len(ring) : ring'[i] = ring[i]
        /\ ring'[Len(ring) + 1] = p
    OBVIOUS
  <1> HIDE DEF InRing
  <1>4. ASSUME NEW t \in TaskSet PROVE InRing(t)' <=> (InRing(t) \/ t = p)
    BY <1>2, <1>3 DEF InRing
  <1>5. ASSUME \A i, j \in DOMAIN ring : ring[i] = ring[j] => i = j, ~InRing(p),
               NEW i \in DOMAIN ring', NEW j \in DOMAIN ring', ring'[i] = ring'[j]
        PROVE  i = j
    <2>1. CASE i \in 1 .. Len(ring) /\ j \in 1 .. Len(ring)
      BY <2>1, <1>2, <1>3, <1>5
    <2>2. CASE i = Len(ring) + 1 \/ j = Len(ring) + 1
      BY <2>2, <1>2, <1>3, <1>5 DEF InRing
    <2>3. QED BY <2>1, <2>2, <1>2
  <1>6. QED BY <1>1, <1>4, <1>5

\* task_remove's unlinking takes out exactly the task it unlinks.
LEMMA RemoveFacts ==
  ASSUME NEW p \in TaskSet, ring \in Seq(TaskSet),
         \A i, j \in DOMAIN ring : ring[i] = ring[j] => i = j,
         NEW n \in DOMAIN ring, ring[n] = p, ring' = WithoutPos(ring, n)
  PROVE  /\ ring' \in Seq(TaskSet)
         /\ \A t \in TaskSet : InRing(t)' <=> (InRing(t) /\ t # p)
         /\ \A i, j \in DOMAIN ring' : ring'[i] = ring'[j] => i = j
  <1> DEFINE L == Len(ring)
  <1>1. L \in Nat /\ DOMAIN ring = 1 .. L /\ n \in 1 .. L /\ L - 1 \in Nat
    OBVIOUS
  <1>2. ring' = [j \in 1 .. L - 1 |-> IF j < n THEN ring[j] ELSE ring[j + 1]]
    BY DEF WithoutPos
  <1>3. DOMAIN ring' = 1 .. L - 1
    BY <1>2
  <1> HIDE DEF L
  <1>4. \A j \in 1 .. L - 1 : ring'[j] = ring[IF j < n THEN j ELSE j + 1]
    BY <1>1, <1>2
  <1>5. \A j \in 1 .. L - 1 : ring'[j] \in TaskSet
    BY <1>1, <1>4
  <1>6. ring' \in Seq(TaskSet)
    BY <1>1, <1>2, <1>5
  <1>7. ASSUME NEW t \in TaskSet PROVE InRing(t)' <=> (InRing(t) /\ t # p)
    <2>1. ASSUME InRing(t)' PROVE InRing(t) /\ t # p
      <3>1. PICK j \in 1 .. L - 1 : ring'[j] = t
        BY <2>1, <1>3 DEF InRing
      <3>2. (IF j < n THEN j ELSE j + 1) \in 1 .. L /\ (IF j < n THEN j ELSE j + 1) # n
        BY <1>1
      <3>3. ring[IF j < n THEN j ELSE j + 1] = t
        BY <3>1, <1>4
      <3>4. QED BY <3>2, <3>3, <1>1 DEF InRing
    <2>2. ASSUME InRing(t), t # p PROVE InRing(t)'
      <3>1. PICK m \in 1 .. L : ring[m] = t
        BY <2>2, <1>1 DEF InRing
      <3>2. m # n
        BY <3>1, <2>2
      <3>3. CASE m < n
        <4>1. m \in 1 .. L - 1 /\ ring'[m] = t
          BY <3>1, <3>3, <1>1, <1>4
        <4>2. QED BY <4>1, <1>3 DEF InRing
      <3>4. CASE m > n
        <4>1. m - 1 \in 1 .. L - 1 /\ ~(m - 1 < n) /\ (m - 1) + 1 = m
          BY <3>4, <1>1
        <4>2. ring'[m - 1] = t
          BY <3>1, <4>1, <1>4
        <4>3. QED BY <4>1, <4>2, <1>3 DEF InRing
      <3>5. QED BY <3>2, <3>3, <3>4, <1>1
    <2>3. QED BY <2>1, <2>2
  <1>8. ASSUME NEW i \in DOMAIN ring', NEW j \in DOMAIN ring', ring'[i] = ring'[j]
        PROVE  i = j
    <2>1. ring[IF i < n THEN i ELSE i + 1] = ring[IF j < n THEN j ELSE j + 1]
      BY <1>3, <1>4, <1>8
    <2>2. /\ (IF i < n THEN i ELSE i + 1) \in 1 .. L
          /\ (IF j < n THEN j ELSE j + 1) \in 1 .. L
      BY <1>1, <1>3
    <2>3. (IF i < n THEN i ELSE i + 1) = (IF j < n THEN j ELSE j + 1)
      BY <2>1, <2>2, <1>1
    <2>4. QED BY <2>3, <1>1, <1>3
  <1>9. QED BY <1>6, <1>7, <1>8

-----------------------------------------------------------------------------
(* The tasks *)

\* The shells, the programs and the kernel's tasks are different tasks.
LEMMA TaskFacts ==
  /\ \A c \in Consoles : Shell[c] \in Shells /\ Shell[c] \in TaskSet
  /\ \A s \in Shells : s \in TaskSet /\ s \notin Programs /\ s # NullTask /\ s # Kbd
  /\ \A s \in Shells : \E c \in Consoles : Shell[c] = s
  /\ \A c, d \in Consoles : Shell[c] = Shell[d] => c = d
  /\ \A p \in Programs : p \in TaskSet /\ p # NullTask /\ p # Kbd
  /\ NullTask \in TaskSet /\ Kbd \in TaskSet
  /\ NoTask \notin TaskSet
  /\ 0 \in Consoles /\ NConsoles \in Nat /\ Quantum \in Nat
  /\ MaxSleep \in Nat /\ MaxAtomic \in Nat /\ Killable \subseteq TaskSet
  /\ Waitable \subseteq TaskSet
  BY TasksAssumption DEF Shells, TaskSet, Consoles

\* While the list is left alone, so is membership of it.
LEMMA SameRing ==
  ASSUME ring' = ring PROVE \A t : InRing(t)' <=> InRing(t)
  BY DEF InRing

\* A shell has a command exactly while it is past its creation.
LEMMA ChildFacts ==
  ASSUME TypeOK, FocusOK, NEW c \in Consoles
  PROVE  child[Shell[c]] # NoTask =>
           /\ child[Shell[c]] \in Programs
           /\ InRing(child[Shell[c]])
           /\ console[child[Shell[c]]] = c
           /\ pc[Shell[c]] \in {"created", "readied", "joining"}
  BY TaskFacts DEF FocusOK, ShellPCs

\* Two shells never run the same command.
LEMMA SeparateFacts ==
  ASSUME TypeOK, FocusOK, NEW c \in Consoles, NEW d \in Consoles,
         child[Shell[c]] # NoTask, child[Shell[c]] = child[Shell[d]]
  PROVE  c = d
  BY ChildFacts, TaskFacts

\* What main() leaves behind satisfies the invariant.
LEMMA InitInv == Init => IndInv
  <1> SUFFICES ASSUME Init PROVE IndInv
    OBVIOUS
  <1> USE TaskFacts DEF Init
  <1> DEFINE L == NConsoles + 2
  <1>1. L \in Nat /\ \A i \in 1 .. L : i # 1 /\ i # L => i - 2 \in Consoles
    BY DEF Consoles
  <1>2. ring \in Seq(TaskSet) /\ DOMAIN ring = 1 .. L
    <2>1. \A i \in 1 .. L : (IF i = 1 THEN Kbd ELSE IF i = L THEN NullTask ELSE Shell[i - 2]) \in TaskSet
      BY <1>1
    <2>2. QED BY <2>1, <1>1
  <1>3. \A c \in Consoles : (CHOOSE d \in Consoles : Shell[d] = Shell[c]) = c
    OBVIOUS
  <1>4. TypeOK
    <2>1. foreground \in [Consoles -> TaskSet]
      BY TasksAssumption DEF TaskSet
    <2>2. \A s \in Shells : (CHOOSE c \in Consoles : Shell[c] = s) \in Consoles
      OBVIOUS
    <2>3. console \in [TaskSet -> Consoles]
      BY <2>2
    <2>4. QED BY <1>2, <2>1, <2>3 DEF TypeOK, States, ShellPCs, PCs
  <1>5. ListOK
    <2>1. \A i, j \in DOMAIN ring : ring[i] = ring[j] => i = j
      <3> SUFFICES ASSUME NEW i \in 1 .. L, NEW j \in 1 .. L, ring[i] = ring[j] PROVE i = j
        BY <1>2
      <3>1. \A k \in 1 .. L : ring[k] = IF k = 1 THEN Kbd ELSE IF k = L THEN NullTask ELSE Shell[k - 2]
        OBVIOUS
      <3>2. Kbd # NullTask
        BY TasksAssumption
      <3>3. CASE i # 1 /\ i # L /\ j # 1 /\ j # L
        <4>1. Shell[i - 2] = Shell[j - 2] /\ i - 2 \in Consoles /\ j - 2 \in Consoles
          BY <3>1, <3>3, <1>1
        <4>2. i - 2 = j - 2
          BY <4>1
        <4>3. QED BY <4>2
      <3>4. CASE ~(i # 1 /\ i # L /\ j # 1 /\ j # L)
        BY <3>1, <3>2, <3>4, <1>1
      <3>5. QED BY <3>3, <3>4
    <2>2. InRing(Kbd) /\ InRing(NullTask)
      <3>1. 1 \in DOMAIN ring /\ L \in DOMAIN ring /\ L # 1 /\ ring[1] = Kbd /\ ring[L] = NullTask
        BY <1>2
      <3>2. QED BY <3>1 DEF InRing
    <2>3. ASSUME NEW c \in Consoles PROVE InRing(Shell[c])
      <3>1. c + 2 \in 1 .. L /\ c + 2 # 1 /\ c + 2 # L /\ (c + 2) - 2 = c
        BY DEF Consoles
      <3>2. ring[c + 2] = Shell[c]
        BY <3>1
      <3>3. QED BY <3>1, <3>2, <1>2 DEF InRing
    <2>4. QED BY <2>1, <2>2, <2>3 DEF ListOK
  <1>6. FocusOK
    <2>1. \A p \in Programs : ~InRing(p)
      BY <1>1, <1>2 DEF InRing
    <2>2. ASSUME NEW c \in Consoles
          PROVE /\ console[Shell[c]] = c /\ pc[Shell[c]] = "prompt"
                /\ child[Shell[c]] = NoTask /\ foreground[c] = Shell[c]
      BY <1>3
    <2>3. QED BY <2>1, <2>2 DEF FocusOK, ShellPCs
  <1>7. JoinOK
    BY DEF JoinOK
  <1>8. QED BY <1>4, <1>5, <1>6, <1>7 DEF IndInv

-----------------------------------------------------------------------------
(* The timer and the system calls of a command *)

\* The clock's tick keeps every sleeping time in its range.
LEMMA ElapseFacts ==
  ASSUME TypeOK
  PROVE  Elapse(left) \in [TaskSet -> 0 .. MaxSleep + 1]
  <1>1. \A t \in TaskSet : left[t] \in 0 .. MaxSleep + 1
    BY DEF TypeOK
  <1>2. \A n \in 0 .. MaxSleep + 1 : (IF n > 0 THEN n - 1 ELSE 0) \in 0 .. MaxSleep + 1
    BY TaskFacts
  <1>3. QED BY <1>1, <1>2 DEF Elapse

\* Steps that change no more than clocks, quantum and atomic levels.
LEMMA TickInv ==
  ASSUME IndInv, TickAtomic \/ TickQuantum \/ \E p \in Programs : Atomic(p) \/ Unatomic(p)
  PROVE  IndInv'
  <1> USE DEF IndInv
  <1>1. /\ ring' = ring /\ current' = current /\ state' = state /\ join' = join
        /\ console' = console /\ foreground' = foreground /\ pc' = pc /\ child' = child
        /\ target' = target
    BY DEF TickAtomic, TickQuantum, Atomic, Unatomic
  <1>2. quantum' \in 0 .. Quantum
    <2>1. CASE TickQuantum
      BY <2>1, TaskFacts DEF TickQuantum, TypeOK
    <2>2. CASE quantum' = quantum
      BY <2>2 DEF TypeOK
    <2>3. QED BY <2>1, <2>2 DEF TickAtomic, Atomic, Unatomic
  <1>3. left' \in [TaskSet -> 0 .. MaxSleep + 1]
    <2>1. CASE TickQuantum \/ TickAtomic
      BY <2>1, ElapseFacts DEF TickQuantum, TickAtomic
    <2>2. CASE left' = left
      BY <2>2 DEF TypeOK
    <2>3. QED BY <2>1, <2>2 DEF Atomic, Unatomic
  <1>4. atomic' \in [TaskSet -> 0 .. MaxAtomic]
    <2>1. ASSUME NEW p \in Programs, Atomic(p) PROVE atomic' \in [TaskSet -> 0 .. MaxAtomic]
      <3>1. atomic[p] \in 0 .. MaxAtomic /\ atomic[p] < MaxAtomic
        BY <2>1, TaskFacts DEF Atomic, TypeOK
      <3>2. atomic[p] + 1 \in 0 .. MaxAtomic
        BY <3>1, TaskFacts
      <3>3. QED BY <2>1, <3>2 DEF Atomic, TypeOK
    <2>2. ASSUME NEW p \in Programs, Unatomic(p) PROVE atomic' \in [TaskSet -> 0 .. MaxAtomic]
      <3>1. atomic[p] \in 0 .. MaxAtomic /\ atomic[p] > 0
        BY <2>2, TaskFacts DEF Unatomic, TypeOK
      <3>2. atomic[p] - 1 \in 0 .. MaxAtomic
        BY <3>1, TaskFacts
      <3>3. QED BY <2>2, <3>2 DEF Unatomic, TypeOK
    <2>3. CASE atomic' = atomic
      BY <2>3 DEF TypeOK
    <2>4. QED BY <2>1, <2>2, <2>3 DEF TickAtomic, TickQuantum
  <1>5. TypeOK'
    BY <1>1, <1>2, <1>3, <1>4 DEF TypeOK
  <1>6. ListOK' /\ FocusOK'
    BY <1>1 DEF ListOK, FocusOK, InRing
  <1>7. JoinOK'
    BY <1>1 DEF JoinOK
  <1>8. QED BY <1>5, <1>6, <1>7

\* A step that ends in task_next and changes nothing else than the states: if
\* the invariant's conditions on shells hold of the states st it leaves behind,
\* they hold after the switch.
LEMMA SwitchInv ==
  ASSUME IndInv,
         NEW st \in [TaskSet -> States], NEW lf \in [TaskSet -> 0 .. MaxSleep + 1],
         Switch(st, lf),
         \A s \in Shells : st[s] = "JOINING" => state[s] = "JOINING",
         left' = lf, ring' = ring, join' = join, atomic' = atomic,
         console' = console, foreground' = foreground, pc' = pc, child' = child,
         target' = target
  PROVE  IndInv'
  <1> USE DEF IndInv
  <1>1. lf \in [TaskSet -> Nat]
    BY TaskFacts
  <1>2. /\ current' \in TaskSet /\ InRing(current') /\ quantum' = Quantum
        /\ state' \in [TaskSet -> States]
        /\ \A t \in TaskSet :
             \/ state'[t] = st[t]
             \/ st[t] = "SLEEPING" /\ lf[t] = 0 /\ state'[t] = "RUNNING"
        /\ current' = NullTask \/ (current' # current /\ st[current'] = "RUNNING")
    BY <1>1, SwitchFacts
  <1>3. TypeOK'
    <2>1. quantum' \in 0 .. Quantum
      BY <1>2, TaskFacts
    <2>2. QED BY <1>2, <2>1 DEF TypeOK
  <1>4. ListOK'
    BY <1>2 DEF ListOK, InRing
  <1>5. FocusOK'
    BY DEF FocusOK, InRing
  <1>6. \A s \in Shells : state'[s] = "JOINING" => state[s] = "JOINING"
    BY <1>2, TaskFacts
  <1>7. JoinOK'
    BY <1>6, TaskFacts DEF JoinOK
  <1>8. QED BY <1>3, <1>4, <1>5, <1>7

\* Steps that leave the list, the consoles, the focus and the programs alone.
LEMMA SameListFocus ==
  ASSUME ListOK, FocusOK, ring' = ring, current' = current, console' = console,
         foreground' = foreground, pc' = pc, child' = child
  PROVE  ListOK' /\ FocusOK'
  <1>1. \A t : InRing(t)' <=> InRing(t)
    BY SameRing
  <1>2. ListOK'
    BY <1>1 DEF ListOK
  <1>3. FocusOK'
    BY <1>1 DEF FocusOK
  <1>4. QED BY <1>2, <1>3

\* A step of the keyboard task at most readies tasks.
LEMMA KbdStep ==
  ASSUME ListOK, FocusOK, JoinOK, ring' = ring, current' = current,
         console' = console, foreground' = foreground, child' = child, join' = join,
         \A t \in TaskSet : state'[t] \in {state[t], "RUNNING"},
         \A d \in Consoles : pc'[Shell[d]] = pc[Shell[d]],
         \A p \in Programs : pc'[p] = pc[p]
  PROVE  ListOK' /\ FocusOK' /\ JoinOK'
  <1>1. \A t : InRing(t)' <=> InRing(t)
    BY SameRing
  <1>2. ListOK'
    BY <1>1 DEF ListOK
  <1>3. FocusOK'
    BY <1>1 DEF FocusOK
  <1>4. JoinOK'
    BY TaskFacts DEF JoinOK
  <1>5. QED BY <1>2, <1>3, <1>4

\* Preemption keeps the invariant.
LEMMA TickSwitchInv ==
  ASSUME IndInv, TickSwitch PROVE IndInv'
  BY SwitchInv, ElapseFacts DEF TickSwitch, IndInv, TypeOK

\* So does a command that waits for a line.
LEMMA ReadInv ==
  ASSUME IndInv, NEW p \in Programs, Read(p) PROVE IndInv'
  <1>1. [state EXCEPT ![p] = "PAUSED"] \in [TaskSet -> States]
    BY DEF IndInv, TypeOK, States
  <1>2. \A s \in Shells : [state EXCEPT ![p] = "PAUSED"][s] = state[s]
    BY TaskFacts DEF IndInv, TypeOK
  <1>3. QED BY <1>1, <1>2, SwitchInv DEF Read, IndInv, TypeOK

\* So does a command that sleeps.
LEMMA SleepInv ==
  ASSUME IndInv, NEW p \in Programs, NEW d \in 0 .. MaxSleep, Sleep(p, d) PROVE IndInv'
  <1>1. [state EXCEPT ![p] = "SLEEPING"] \in [TaskSet -> States]
    BY DEF IndInv, TypeOK, States
  <1>2. \A s \in Shells : [state EXCEPT ![p] = "SLEEPING"][s] = state[s]
    BY TaskFacts DEF IndInv, TypeOK
  <1>3. left' \in [TaskSet -> 0 .. MaxSleep + 1]
    <2>1. d + 1 \in 0 .. MaxSleep + 1
      BY TaskFacts
    <2>2. QED BY <2>1 DEF Sleep, IndInv, TypeOK
  <1>4. Switch([state EXCEPT ![p] = "SLEEPING"], left')
    BY DEF Sleep
  <1>5. QED BY <1>1, <1>2, <1>3, <1>4, SwitchInv DEF Sleep

\* So does a command that makes a task wait at a semaphore, whoever it is ...
LEMMA SemWaitInv ==
  ASSUME IndInv, NEW p \in Programs, NEW t \in TaskSet, SemWait(p, t) PROVE IndInv'
  <1>1. [state EXCEPT ![t] = "PAUSED"] \in [TaskSet -> States]
    BY DEF IndInv, TypeOK, States
  <1>2. \A s \in Shells : [state EXCEPT ![t] = "PAUSED"][s] = "JOINING" => state[s] = "JOINING"
    BY TaskFacts DEF IndInv, TypeOK
  <1>3. QED BY <1>1, <1>2, SwitchInv DEF SemWait, IndInv, TypeOK

\* ... and for some time.
LEMMA SemWaitForInv ==
  ASSUME IndInv, NEW p \in Programs, NEW t \in TaskSet, NEW d \in 0 .. MaxSleep,
         SemWaitFor(p, t, d)
  PROVE  IndInv'
  <1>1. [state EXCEPT ![t] = "SLEEPING"] \in [TaskSet -> States]
    BY DEF IndInv, TypeOK, States
  <1>2. \A s \in Shells : [state EXCEPT ![t] = "SLEEPING"][s] = "JOINING" => state[s] = "JOINING"
    BY TaskFacts DEF IndInv, TypeOK
  <1>3. left' \in [TaskSet -> 0 .. MaxSleep + 1]
    <2>1. d + 1 \in 0 .. MaxSleep + 1
      BY TaskFacts
    <2>2. QED BY <2>1 DEF SemWaitFor, IndInv, TypeOK
  <1>4. Switch([state EXCEPT ![t] = "SLEEPING"], left')
    BY DEF SemWaitFor
  <1>5. QED BY <1>1, <1>2, <1>3, <1>4, SwitchInv DEF SemWaitFor

\* Releasing a task from a semaphore puts no shell to sleep in task_join.
LEMMA SemSignalInv ==
  ASSUME IndInv, NEW p \in Programs, NEW t \in TaskSet, SemSignal(p, t) PROVE IndInv'
  <1> USE DEF IndInv
  <1>1. /\ ring' = ring /\ current' = current /\ quantum' = quantum /\ join' = join
        /\ atomic' = atomic /\ left' = left /\ console' = console
        /\ foreground' = foreground /\ pc' = pc /\ child' = child /\ target' = target
        /\ state' = [state EXCEPT ![t] = "RUNNING"]
    BY DEF SemSignal
  <1>2. /\ state' \in [TaskSet -> States]
        /\ \A u \in TaskSet : state'[u] \in {state[u], "RUNNING"}
    BY <1>1 DEF TypeOK, States
  <1>3. TypeOK'
    BY <1>1, <1>2 DEF TypeOK
  <1>4. ListOK' /\ FocusOK'
    BY <1>1, SameListFocus
  <1>5. JoinOK'
    BY <1>1, <1>2, TaskFacts DEF JoinOK
  <1>6. QED BY <1>3, <1>4, <1>5

\* Enter takes the foreground of the console down.
LEMMA NewlineInv ==
  ASSUME IndInv, NEW c \in Consoles, Newline(c) PROVE IndInv'
  <1> USE DEF IndInv
  <1>1. /\ state' = state /\ ring' = ring /\ current' = current /\ quantum' = quantum
        /\ join' = join /\ atomic' = atomic /\ left' = left /\ console' = console
        /\ foreground' = foreground /\ child' = child
        /\ target' = foreground[c] /\ pc' = [pc EXCEPT ![Kbd] = "entered"]
    BY DEF Newline
  <1>2. TypeOK'
    BY <1>1 DEF TypeOK, PCs
  <1>3. /\ \A d \in Consoles : pc'[Shell[d]] = pc[Shell[d]]
        /\ \A p \in Programs : pc'[p] = pc[p]
    BY <1>1, TaskFacts DEF TypeOK
  <1>4. ListOK' /\ FocusOK' /\ JoinOK'
    BY <1>1, <1>3, KbdStep
  <1>5. QED BY <1>2, <1>4

\* Readying the task Enter found, in the list or not any more, may wake a shell,
\* and puts nobody to sleep.
LEMMA NewlineReadyInv ==
  ASSUME IndInv, NewlineReady PROVE IndInv'
  <1> USE DEF IndInv
  <1>1. /\ ring' = ring /\ current' = current /\ quantum' = quantum
        /\ join' = join /\ atomic' = atomic /\ left' = left /\ console' = console
        /\ foreground' = foreground /\ child' = child
        /\ target' = NoTask /\ pc' = [pc EXCEPT ![Kbd] = "run"]
        /\ state' = [state EXCEPT ![target] = "RUNNING"]
    BY DEF NewlineReady
  <1>2. /\ state' \in [TaskSet -> States]
        /\ \A t \in TaskSet : state'[t] \in {state[t], "RUNNING"}
    BY <1>1 DEF TypeOK, States
  <1>3. TypeOK'
    BY <1>1, <1>2 DEF TypeOK, PCs
  <1>4. /\ \A d \in Consoles : pc'[Shell[d]] = pc[Shell[d]]
        /\ \A p \in Programs : pc'[p] = pc[p]
    BY <1>1, TaskFacts DEF TypeOK
  <1>5. ListOK' /\ FocusOK' /\ JoinOK'
    BY <1>1, <1>2, <1>4, KbdStep
  <1>6. QED BY <1>3, <1>5

\* Killing a task wakes the shell that joined it, and clears that join.
LEMMA KillInv ==
  ASSUME IndInv, NEW p \in Programs, NEW t \in TaskSet, Kill(p, t) PROVE IndInv'
  <1> USE DEF IndInv
  <1>1. /\ state' = WakeJoiner([state EXCEPT ![t] = "ZOMBIE"], t)
        /\ join' = [join EXCEPT ![t] = NoTask]
        /\ ring' = ring /\ current' = current /\ quantum' = quantum
        /\ atomic' = atomic /\ left' = left /\ console' = console
        /\ foreground' = foreground /\ pc' = pc /\ child' = child /\ current = p
        /\ target' = target
    BY DEF Kill
  <1>2. join[t] # NoTask => join[t] \in Shells /\ join[t] \in TaskSet
    BY TaskFacts DEF TypeOK
  <1>3. /\ state' \in [TaskSet -> States]
        /\ \A u \in TaskSet :
             state'[u] = IF u = join[t] THEN "RUNNING"
                         ELSE IF u = t THEN "ZOMBIE" ELSE state[u]
    BY <1>1, <1>2, TaskFacts DEF WakeJoiner, TypeOK, States
  <1>4. TypeOK'
    BY <1>1, <1>3, TaskFacts DEF TypeOK
  <1>12. ListOK' /\ FocusOK'
    BY <1>1, SameListFocus
  <1>5. /\ \A u \in TaskSet : join'[u] = IF u = t THEN NoTask ELSE join[u]
    BY <1>1 DEF TypeOK
  <1>7. ASSUME NEW c \in Consoles, pc[Shell[c]] = "joining"
        PROVE  /\ child[Shell[c]] \in TaskSet
               /\ join[t] = Shell[c] => child[Shell[c]] = t
    <2>1. child[Shell[c]] \in TaskSet
      BY <1>7, TaskFacts DEF FocusOK
    <2>2. ASSUME join[t] = Shell[c] PROVE child[Shell[c]] = t
      <3>1. PICK d \in Consoles : child[Shell[d]] = t /\ join[t] = Shell[d]
        BY <2>2, TaskFacts DEF JoinOK
      <3>2. d = c
        BY <3>1, <2>2, TaskFacts
      <3>3. QED BY <3>1, <3>2
    <2>3. QED BY <2>1, <2>2
  <1>8. ASSUME NEW u \in TaskSet, join'[u] # NoTask
        PROVE  \E c \in Consoles :
                 pc[Shell[c]] = "joining" /\ child[Shell[c]] = u /\ join'[u] = Shell[c]
    BY <1>5, <1>8 DEF JoinOK
  <1>9. ASSUME NEW c \in Consoles, state'[Shell[c]] = "JOINING"
        PROVE  pc[Shell[c]] = "joining" /\ join'[child[Shell[c]]] = Shell[c]
    <2>1. CASE Shell[c] = join[t]
      <3>1. PICK d \in Consoles : child[Shell[d]] = t /\ join[t] = Shell[d] /\ pc[Shell[d]] = "joining"
        BY <2>1, TaskFacts DEF JoinOK
      <3>2. d = c
        BY <3>1, <2>1, TaskFacts
      <3>3. QED BY <3>1, <3>2, <2>1, <1>3, <1>5, <1>9, TaskFacts
    <2>2. CASE Shell[c] # join[t]
      <3>1. state'[Shell[c]] = IF Shell[c] = t THEN "ZOMBIE" ELSE state[Shell[c]]
        BY <2>2, <1>3, TaskFacts
      <3>2. state[Shell[c]] = "JOINING" => child[Shell[c]] # t
        BY <2>2 DEF JoinOK
      <3>3. QED BY <3>1, <3>2, <1>5, <1>7, <1>9, TaskFacts DEF JoinOK
    <2>3. QED BY <2>1, <2>2
  <1>10. JoinOK'
    <2>1. current' = current /\ pc' = pc /\ child' = child
      BY <1>1
    <2>2. \A u \in TaskSet : join'[u] # NoTask =>
            \E c \in Consoles :
              pc'[Shell[c]] = "joining" /\ child'[Shell[c]] = u /\ join'[u] = Shell[c]
      BY <2>1, <1>8
    <2> HIDE DEF IndInv
    <2>3. QED BY <2>1, <2>2, <1>9 DEF JoinOK
  <1>13. QED BY <1>4, <1>12, <1>10

\* A command that returns wakes its shell, and the shell gets the focus.
LEMMA ExitInv ==
  ASSUME IndInv, NEW p \in Programs, Exit(p) PROVE IndInv'
  <1> USE DEF IndInv
  <1> DEFINE st == [WakeJoiner(state, p) EXCEPT ![p] = "ZOMBIE"]
  <1>1. /\ join' = [join EXCEPT ![p] = NoTask]
        /\ foreground' = [foreground EXCEPT ![console[p]] = Shell[console[p]]]
        /\ pc' = [pc EXCEPT ![p] = "exited"]
        /\ ring' = ring /\ atomic' = atomic /\ left' = left
        /\ console' = console /\ child' = child /\ current = p /\ target' = target
        /\ Switch(st, left)
    BY DEF Exit
  <1>2. join[p] # NoTask => join[p] \in Shells /\ join[p] \in TaskSet
    BY TaskFacts DEF TypeOK
  <1>3. /\ st \in [TaskSet -> States]
        /\ \A u \in TaskSet :
             st[u] = IF u = p THEN "ZOMBIE"
                     ELSE IF u = join[p] THEN "RUNNING" ELSE state[u]
    BY <1>2, TaskFacts DEF WakeJoiner, TypeOK, States
  <1>4. left \in [TaskSet -> Nat]
    BY TaskFacts DEF TypeOK
  <1> HIDE DEF st
  <1>5. /\ current' \in TaskSet /\ InRing(current') /\ quantum' = Quantum
        /\ state' \in [TaskSet -> States]
        /\ \A t \in TaskSet :
             \/ state'[t] = st[t]
             \/ st[t] = "SLEEPING" /\ left[t] = 0 /\ state'[t] = "RUNNING"
        /\ current' = NullTask \/ (current' # current /\ st[current'] = "RUNNING")
    BY <1>1, <1>3, <1>4, SwitchFacts
  <1>6. TypeOK'
    <2>1. quantum' \in 0 .. Quantum
      BY <1>5, TaskFacts
    <2>2. foreground' \in [Consoles -> TaskSet]
      BY <1>1, TaskFacts DEF TypeOK
    <2>3. pc' \in [TaskSet -> PCs]
      BY <1>1 DEF TypeOK, PCs
    <2>4. join' \in [TaskSet -> Shells \union {NoTask}]
      BY <1>1 DEF TypeOK
    <2>5. QED BY <1>1, <1>5, <2>1, <2>2, <2>3, <2>4 DEF TypeOK
  <1>7. \A t : InRing(t)' <=> InRing(t)
    BY <1>1, SameRing
  <1>8. ListOK'
    BY <1>1, <1>5, <1>7 DEF ListOK
  <1>9. /\ \A u \in TaskSet : pc'[u] = IF u = p THEN "exited" ELSE pc[u]
        /\ \A c \in Consoles : pc'[Shell[c]] = pc[Shell[c]]
        /\ \A u \in TaskSet : join'[u] = IF u = p THEN NoTask ELSE join[u]
    BY <1>1, TaskFacts DEF TypeOK
  <1>10. FocusOK'
    <2>1. ASSUME NEW c \in Consoles
          PROVE  foreground'[c] = IF c = console[p] THEN Shell[c] ELSE foreground[c]
      BY <1>1, TaskFacts DEF TypeOK
    <2>2. ASSUME NEW c \in Consoles, pc[Shell[c]] \in {"created", "readied", "joining"}
          PROVE  /\ child[Shell[c]] \in Programs
                 /\ foreground'[c] = child[Shell[c]] \/
                      (foreground'[c] = Shell[c] /\ pc'[child[Shell[c]]] = "exited")
      <3>1. /\ child[Shell[c]] \in Programs /\ console[child[Shell[c]]] = c
            /\ foreground[c] = child[Shell[c]] \/
                 (foreground[c] = Shell[c] /\ pc[child[Shell[c]]] = "exited")
        BY <2>2 DEF FocusOK
      <3>2. CASE c = console[p]
        <4>1. InRing(p)
          BY <1>1 DEF ListOK
        <4>2. PICK d \in Consoles : child[Shell[d]] = p
          BY <4>1 DEF FocusOK
        <4>3. console[p] = d
          BY <4>2, ChildFacts, TaskFacts
        <4>4. QED BY <3>1, <3>2, <4>2, <4>3, <2>1, <1>9, TaskFacts
      <3>3. CASE c # console[p]
        BY <3>1, <3>3, <2>1, <1>9, TaskFacts
      <3>4. QED BY <3>1, <3>2, <3>3
    <2>3. QED BY <1>1, <1>7, <1>9, <2>1, <2>2 DEF FocusOK
  <1>11. ASSUME NEW u \in TaskSet, join'[u] # NoTask
         PROVE  \E c \in Consoles :
                  pc'[Shell[c]] = "joining" /\ child'[Shell[c]] = u /\ join'[u] = Shell[c]
    BY <1>1, <1>9, <1>11 DEF JoinOK
  <1>12. \A s \in Shells : s # p /\ (state'[s] = "JOINING" => st[s] = "JOINING")
    BY <1>3, <1>5, TaskFacts
  <1>13. ASSUME NEW c \in Consoles, state'[Shell[c]] = "JOINING"
         PROVE  pc'[Shell[c]] = "joining" /\ join'[child[Shell[c]]] = Shell[c]
    <2>1. st[Shell[c]] = "JOINING"
      BY <1>12, <1>13, TaskFacts
    <2>2. pc[Shell[c]] = "joining" => child[Shell[c]] \in Programs /\ child[Shell[c]] \in TaskSet
      BY TaskFacts DEF FocusOK
    <2>3. CASE Shell[c] = join[p]
      <3>1. PICK d \in Consoles : child[Shell[d]] = p /\ join[p] = Shell[d] /\ pc[Shell[d]] = "joining"
        BY <2>3, TaskFacts DEF JoinOK
      <3>2. d = c
        BY <3>1, <2>3, TaskFacts
      <3>3. QED BY <2>1, <2>3, <1>3, <1>12, TaskFacts
    <2>4. CASE Shell[c] # join[p]
      <3>1. state[Shell[c]] = "JOINING"
        BY <2>1, <2>4, <1>3, <1>12, TaskFacts
      <3>2. state[Shell[c]] = "JOINING" => child[Shell[c]] # p
        BY <2>4 DEF JoinOK
      <3>3. QED BY <3>1, <3>2, <2>2, <1>9, TaskFacts DEF JoinOK
    <2>5. QED BY <2>3, <2>4
  <1>14. JoinOK'
    <2> HIDE DEF IndInv
    <2>1. child' = child
      BY <1>1
    <2>2. QED BY <2>1, <1>11, <1>13 DEF JoinOK
  <1>15. QED BY <1>6, <1>8, <1>10, <1>14

-----------------------------------------------------------------------------
(* The shell *)

\* A step of a shell between its prompt and its command.
LEMMA PromptInv ==
  ASSUME IndInv, NEW c \in Consoles, ShellRead(c) \/ ShellLine(c) PROVE IndInv'
  <1> USE DEF IndInv
  <1> DEFINE s == Shell[c]
  <1>1. /\ ring' = ring /\ join' = join /\ atomic' = atomic /\ left' = left
        /\ console' = console /\ foreground' = foreground /\ child' = child
        /\ current = s /\ target' = target
    BY DEF ShellRead, ShellLine
  <1>2. PICK now \in {"prompt", "reading", "command"} :
          pc' = [pc EXCEPT ![s] = now] /\ pc[s] \in {"prompt", "reading"}
    BY DEF ShellRead, ShellLine
  <1>3. /\ current' \in TaskSet /\ InRing(current') /\ quantum' \in 0 .. Quantum
        /\ state' \in [TaskSet -> States]
        /\ \A u \in Shells : state'[u] = "JOINING" => state[u] = "JOINING"
    <2>1. CASE ShellLine(c)
      BY <2>1 DEF ShellLine, ListOK, TypeOK
    <2>2. CASE ShellRead(c)
      <3> DEFINE st == [state EXCEPT ![s] = "PAUSED"]
      <3>1. /\ st \in [TaskSet -> States]
            /\ \A u \in TaskSet : st[u] = IF u = s THEN "PAUSED" ELSE state[u]
        BY TaskFacts DEF TypeOK, States
      <3>2. left \in [TaskSet -> Nat]
        BY TaskFacts DEF TypeOK
      <3>3. Switch(st, left)
        BY <2>2 DEF ShellRead
      <3> HIDE DEF st
      <3>4. /\ current' \in TaskSet /\ InRing(current') /\ quantum' = Quantum
            /\ state' \in [TaskSet -> States]
            /\ \A t \in TaskSet :
                 \/ state'[t] = st[t]
                 \/ st[t] = "SLEEPING" /\ left[t] = 0 /\ state'[t] = "RUNNING"
            /\ current' = NullTask \/ (current' # current /\ st[current'] = "RUNNING")
        BY <3>1, <3>2, <3>3, SwitchFacts
      <3>6. \A u \in Shells : state'[u] = "JOINING" => state[u] = "JOINING"
        BY <3>1, <3>4, TaskFacts
      <3>7. quantum' \in 0 .. Quantum
        BY <3>4, TaskFacts
      <3>8. QED BY <3>4, <3>6, <3>7
    <2>3. QED BY <2>1, <2>2
  <1>4. /\ \A u \in TaskSet : pc'[u] = IF u = s THEN now ELSE pc[u]
        /\ pc' \in [TaskSet -> PCs]
    BY <1>2, TaskFacts DEF TypeOK, ShellPCs, PCs
  <1>5. TypeOK'
    BY <1>1, <1>3, <1>4 DEF TypeOK
  <1>6. \A t : InRing(t)' <=> InRing(t)
    BY <1>1, SameRing
  <1>7. ListOK'
    BY <1>1, <1>3, <1>6 DEF ListOK
  <1>8. FocusOK'
    <2>1. ASSUME NEW d \in Consoles, d # c
          PROVE  /\ pc'[Shell[d]] = pc[Shell[d]]
                 /\ child[Shell[d]] \in Programs => pc'[child[Shell[d]]] = pc[child[Shell[d]]]
      BY <2>1, <1>4, TaskFacts
    <2>2. /\ pc'[s] \in {"prompt", "reading", "command"} /\ child[s] = NoTask
          /\ foreground[c] = s /\ console[s] = c
      BY <1>2, <1>4, TaskFacts DEF FocusOK
    <2> HIDE DEF IndInv
    <2>3. QED BY <1>1, <1>6, <2>1, <2>2 DEF FocusOK, ShellPCs, IndInv
  <1>9. JoinOK'
    <2>1. ASSUME NEW d \in Consoles, d # c
          PROVE  /\ pc'[Shell[d]] = pc[Shell[d]]
                 /\ state'[Shell[d]] = "JOINING" => state[Shell[d]] = "JOINING"
                 /\ pc[Shell[d]] = "joining" => pc'[child[Shell[d]]] = pc[child[Shell[d]]]
      <3>1. Shell[d] # s /\ Shell[d] \in TaskSet /\ Shell[d] \in Shells
        BY <2>1, TaskFacts
      <3>2. pc[Shell[d]] = "joining" => child[Shell[d]] \in Programs
        BY DEF FocusOK
      <3>3. QED BY <3>1, <3>2, <1>1, <1>3, <1>4, TaskFacts
    <2>2. pc'[s] # "joining" /\ state'[s] # "JOINING" /\ pc[s] # "joining"
      BY <1>2, <1>3, <1>4, TaskFacts DEF JoinOK
    <2>3. ASSUME NEW t \in TaskSet, join[t] # NoTask
          PROVE  \E d \in Consoles :
                   pc'[Shell[d]] = "joining" /\ child[Shell[d]] = t /\ join[t] = Shell[d]
      BY <2>1, <2>2, <2>3 DEF JoinOK
    <2>4. ASSUME NEW d \in Consoles, state'[Shell[d]] = "JOINING"
          PROVE  pc'[Shell[d]] = "joining" /\ join[child[Shell[d]]] = Shell[d]
      BY <2>1, <2>2, <2>4 DEF JoinOK
    <2> HIDE DEF IndInv
    <2>5. QED BY <1>1, <2>3, <2>4 DEF JoinOK
  <1>10. QED BY <1>5, <1>7, <1>8, <1>9

\* Readying the command leaves the shell that runs it alone.
LEMMA ShellReadyInv ==
  ASSUME IndInv, NEW c \in Consoles, ShellReady(c) PROVE IndInv'
  <1> USE DEF IndInv
  <1> DEFINE s == Shell[c]
             p == child[s]
  <1>1. /\ ring' = ring /\ current' = current /\ quantum' = quantum /\ join' = join
        /\ atomic' = atomic /\ left' = left /\ console' = console
        /\ foreground' = foreground /\ child' = child /\ target' = target
        /\ state' = [state EXCEPT ![p] = "RUNNING"]
        /\ pc' = [pc EXCEPT ![s] = "readied"] /\ pc[s] = "created"
    BY DEF ShellReady
  <1>2. p \in Programs /\ p \in TaskSet /\ s \in TaskSet /\ s \in Shells
    BY <1>1, TaskFacts DEF FocusOK
  <1>3. /\ \A u \in TaskSet : pc'[u] = IF u = s THEN "readied" ELSE pc[u]
        /\ \A u \in Shells : state'[u] = state[u]
    BY <1>1, <1>2, TaskFacts DEF TypeOK
  <1>4. TypeOK'
    <2>1. state' \in [TaskSet -> States]
      BY <1>1 DEF TypeOK, States
    <2>2. pc' \in [TaskSet -> PCs]
      BY <1>1 DEF TypeOK, ShellPCs, PCs
    <2>3. QED BY <1>1, <2>1, <2>2 DEF TypeOK
  <1>5. \A t : InRing(t)' <=> InRing(t)
    BY <1>1, SameRing
  <1>6. ListOK'
    BY <1>1, <1>5 DEF ListOK
  <1>7. ASSUME NEW d \in Consoles
        PROVE  /\ pc'[Shell[d]] = IF d = c THEN "readied" ELSE pc[Shell[d]]
               /\ child[Shell[d]] \in Programs => pc'[child[Shell[d]]] = pc[child[Shell[d]]]
               /\ state'[Shell[d]] = state[Shell[d]]
    BY <1>3, TaskFacts
  <1>8. FocusOK'
    <2> HIDE DEF s, p
    <2>1. QED BY <1>1, <1>5, <1>7 DEF FocusOK, ShellPCs, s
  <1>9. JoinOK'
    <2>1. ASSUME NEW t \in TaskSet, join[t] # NoTask
          PROVE  \E d \in Consoles :
                   pc'[Shell[d]] = "joining" /\ child[Shell[d]] = t /\ join[t] = Shell[d]
      BY <1>1, <1>7, <2>1 DEF JoinOK
    <2>2. ASSUME NEW d \in Consoles, state'[Shell[d]] = "JOINING"
          PROVE  pc'[Shell[d]] = "joining" /\ join[child[Shell[d]]] = Shell[d]
      BY <1>1, <1>7, <2>2 DEF JoinOK, FocusOK
    <2> HIDE DEF IndInv
    <2>3. QED BY <1>1, <2>1, <2>2 DEF JoinOK
  <1>10. QED BY <1>4, <1>6, <1>8, <1>9

\* The shell registers with its command before it sleeps.
LEMMA ShellJoinInv ==
  ASSUME IndInv, NEW c \in Consoles, ShellJoin(c) PROVE IndInv'
  <1> USE DEF IndInv
  <1> DEFINE s == Shell[c]
             p == child[s]
             st == [state EXCEPT ![s] = "JOINING"]
  <1>1. /\ ring' = ring /\ atomic' = atomic /\ left' = left /\ console' = console
        /\ foreground' = foreground /\ child' = child /\ current = s /\ target' = target
        /\ join' = [join EXCEPT ![p] = s]
        /\ pc' = [pc EXCEPT ![s] = "joining"] /\ pc[s] = "readied"
        /\ Switch(st, left)
    BY DEF ShellJoin
  <1>2. p \in Programs /\ p \in TaskSet /\ s \in TaskSet /\ s \in Shells /\ s # NullTask
    BY <1>1, TaskFacts DEF FocusOK
  <1>3. /\ st \in [TaskSet -> States]
        /\ \A u \in TaskSet : st[u] = IF u = s THEN "JOINING" ELSE state[u]
    BY <1>2 DEF TypeOK, States
  <1>4. left \in [TaskSet -> Nat]
    BY TaskFacts DEF TypeOK
  <1> HIDE DEF st
  <1>5. /\ current' \in TaskSet /\ InRing(current') /\ quantum' = Quantum
        /\ state' \in [TaskSet -> States]
        /\ \A t \in TaskSet :
             \/ state'[t] = st[t]
             \/ st[t] = "SLEEPING" /\ left[t] = 0 /\ state'[t] = "RUNNING"
        /\ current' = NullTask \/ (current' # current /\ st[current'] = "RUNNING")
    BY <1>1, <1>3, <1>4, SwitchFacts
  <1>6. TypeOK'
    <2>1. quantum' \in 0 .. Quantum
      BY <1>5, TaskFacts
    <2>2. pc' \in [TaskSet -> PCs]
      BY <1>1 DEF TypeOK, ShellPCs, PCs
    <2>3. join' \in [TaskSet -> Shells \union {NoTask}]
      BY <1>1, <1>2 DEF TypeOK
    <2>4. QED BY <1>1, <1>5, <2>1, <2>2, <2>3 DEF TypeOK
  <1>7. \A t : InRing(t)' <=> InRing(t)
    BY <1>1, SameRing
  <1>8. ListOK'
    BY <1>1, <1>5, <1>7 DEF ListOK
  <1>9. /\ \A u \in TaskSet : pc'[u] = IF u = s THEN "joining" ELSE pc[u]
        /\ \A u \in TaskSet : join'[u] = IF u = p THEN s ELSE join[u]
    BY <1>1, <1>2 DEF TypeOK
  <1>10. ASSUME NEW d \in Consoles
         PROVE  /\ pc'[Shell[d]] = IF d = c THEN "joining" ELSE pc[Shell[d]]
                /\ child[Shell[d]] \in Programs =>
                     /\ pc'[child[Shell[d]]] = pc[child[Shell[d]]]
                     /\ join'[child[Shell[d]]] =
                          IF d = c THEN s ELSE join[child[Shell[d]]]
                /\ state'[Shell[d]] = "JOINING" => d = c \/ state[Shell[d]] = "JOINING"
    <2>1. /\ Shell[d] \in TaskSet /\ Shell[d] \in Shells /\ Shell[d] # NullTask
          /\ d = c <=> Shell[d] = s
      BY TaskFacts
    <2>2. child[Shell[d]] \in Programs =>
            /\ child[Shell[d]] \in TaskSet /\ child[Shell[d]] # s /\ child[Shell[d]] # NoTask
            /\ child[Shell[d]] = p => d = c
      BY <1>2, TaskFacts, SeparateFacts
    <2>4. state'[Shell[d]] = "JOINING" => st[Shell[d]] = "JOINING"
      BY <2>1, <1>5
    <2>5. QED BY <2>1, <2>2, <2>4, <1>1, <1>3, <1>5, <1>9
  <1>11. FocusOK'
    <2>1. \A d \in Consoles : d = c => pc[Shell[d]] = "readied"
      BY <1>1
    <2> HIDE DEF s, p
    <2>2. QED BY <1>1, <1>7, <1>10, <2>1 DEF FocusOK, ShellPCs
  <1>12. JoinOK'
    <2>1. ASSUME NEW t \in TaskSet, join'[t] # NoTask
          PROVE  \E d \in Consoles :
                   pc'[Shell[d]] = "joining" /\ child[Shell[d]] = t /\ join'[t] = Shell[d]
      <3>1. CASE t = p
        BY <3>1, <1>9, <1>10
      <3>2. CASE t # p
        <4>1. join[t] # NoTask /\ join'[t] = join[t]
          BY <3>2, <2>1, <1>9
        <4>2. PICK d \in Consoles :
                pc[Shell[d]] = "joining" /\ child[Shell[d]] = t /\ join[t] = Shell[d]
          BY <4>1 DEF JoinOK
        <4>3. QED BY <4>1, <4>2, <1>10
      <3>3. QED BY <3>1, <3>2
    <2>2. ASSUME NEW d \in Consoles, state'[Shell[d]] = "JOINING"
          PROVE  pc'[Shell[d]] = "joining" /\ join'[child[Shell[d]]] = Shell[d]
      <3>1. CASE d = c
        BY <3>1, <1>2, <1>10
      <3>2. CASE d # c
        <4>1. pc[Shell[d]] = "joining" => child[Shell[d]] \in Programs
          BY DEF FocusOK
        <4>2. QED BY <2>2, <3>2, <4>1, <1>10 DEF JoinOK
      <3>3. QED BY <3>1, <3>2
    <2> HIDE DEF IndInv
    <2>3. QED BY <1>1, <2>1, <2>2 DEF JoinOK
  <1>13. QED BY <1>6, <1>8, <1>11, <1>12

\* A new command belongs to the shell that creates it, and to no other.
LEMMA ShellCreateInv ==
  ASSUME IndInv, NEW c \in Consoles, NEW p \in Programs, ShellCreate(c, p) PROVE IndInv'
  <1> USE DEF IndInv
  <1> DEFINE s == Shell[c]
  <1>1. /\ ring' = Append(ring, p) /\ current' = current /\ quantum' = quantum
        /\ left' = left /\ target' = target /\ ~InRing(p) /\ current = s /\ pc[s] = "command"
        /\ state' = [state EXCEPT ![p] = "PAUSED"]
        /\ join' = [join EXCEPT ![p] = NoTask]
        /\ atomic' = [atomic EXCEPT ![p] = 0]
        /\ console' = [console EXCEPT ![p] = console[s]]
        /\ foreground' = [foreground EXCEPT ![console[s]] = p]
        /\ child' = [child EXCEPT ![s] = p]
        /\ pc' = [pc EXCEPT ![s] = "created", ![p] = "run"]
    BY DEF ShellCreate, TaskCreate
  <1>2. console[s] = c /\ s \in Shells /\ s \in TaskSet /\ p \in TaskSet /\ s # p
    BY TaskFacts DEF FocusOK
  <1>3. /\ ring' \in Seq(TaskSet)
        /\ \A t \in TaskSet : InRing(t)' <=> (InRing(t) \/ t = p)
        /\ \A i, j \in DOMAIN ring' : ring'[i] = ring'[j] => i = j
    BY <1>1, <1>2, AppendFacts DEF TypeOK, ListOK
  <1>4. TypeOK'
    <2>1. state' \in [TaskSet -> States] /\ join' \in [TaskSet -> Shells \union {NoTask}]
      BY <1>1 DEF TypeOK, States
    <2>2. 0 \in 0 .. MaxAtomic
      BY TaskFacts
    <2>3. atomic' \in [TaskSet -> 0 .. MaxAtomic]
      BY <1>1, <2>2 DEF TypeOK
    <2>4. console' \in [TaskSet -> Consoles] /\ foreground' \in [Consoles -> TaskSet]
      BY <1>1, <1>2 DEF TypeOK
    <2>5. child' \in [Shells -> Programs \union {NoTask}]
      BY <1>1 DEF TypeOK
    <2>6. pc' \in [TaskSet -> PCs]
      BY <1>1 DEF TypeOK, ShellPCs, PCs
    <2>7. QED BY <1>1, <1>3, <2>1, <2>3, <2>4, <2>5, <2>6 DEF TypeOK
  <1>5. ListOK'
    <2>1. current \in TaskSet
      BY DEF TypeOK
    <2>2. QED BY <1>1, <1>3, <2>1, TaskFacts DEF ListOK
  <1>6. ASSUME NEW d \in Consoles
        PROVE  /\ Shell[d] \in TaskSet /\ Shell[d] \in Shells /\ Shell[d] # p
               /\ d = c <=> Shell[d] = s
               /\ child'[Shell[d]] = IF d = c THEN p ELSE child[Shell[d]]
               /\ pc'[Shell[d]] = IF d = c THEN "created" ELSE pc[Shell[d]]
               /\ state'[Shell[d]] = state[Shell[d]]
               /\ console'[Shell[d]] = console[Shell[d]]
               /\ foreground'[d] = IF d = c THEN p ELSE foreground[d]
    <2>1. /\ Shell[d] \in TaskSet /\ Shell[d] \in Shells /\ Shell[d] # p
          /\ d = c <=> Shell[d] = s
      BY TaskFacts
    <2>2. QED BY <1>1, <1>2, <2>1 DEF TypeOK
  <1>7. ASSUME NEW d \in Consoles, d # c, child[Shell[d]] \in Programs
        PROVE  /\ child[Shell[d]] # p /\ InRing(child[Shell[d]])'
               /\ console'[child[Shell[d]]] = d
               /\ pc'[child[Shell[d]]] = pc[child[Shell[d]]]
               /\ join'[child[Shell[d]]] = join[child[Shell[d]]]
    <2> DEFINE q == child[Shell[d]]
    <2>1. InRing(q) /\ console[q] = d /\ q \in TaskSet
      BY <1>7, ChildFacts, TaskFacts
    <2>2. q # p /\ q # s
      BY <2>1, <1>1, <1>7, <1>2, TaskFacts
    <2>3. /\ console'[q] = d /\ pc'[q] = pc[q] /\ join'[q] = join[q]
      BY <2>1, <2>2, <1>1 DEF TypeOK
    <2>4. child'[Shell[d]] = child[Shell[d]]
      BY <1>6, <1>7
    <2>5. InRing(child[Shell[d]])'
      BY <2>1, <2>4, <1>3
    <2>6. QED BY <2>2, <2>3, <2>5
  <1>8. FocusOK'
    <2>1. ASSUME NEW q \in Programs, InRing(q)'
          PROVE  \E d \in Consoles : child'[Shell[d]] = q
      <3>1. CASE q = p
        BY <3>1, <1>6
      <3>2. CASE q # p
        <4>1. InRing(q)
          BY <3>2, <2>1, <1>3, TaskFacts
        <4>2. PICK d \in Consoles : child[Shell[d]] = q
          BY <4>1 DEF FocusOK
        <4>3. d # c
          BY <4>2, <1>1, TaskFacts DEF FocusOK
        <4>4. QED BY <4>2, <4>3, <1>6
      <3>3. QED BY <3>1, <3>2
    <2>2. InRing(p)' /\ console'[p] = c
      BY <1>1, <1>2, <1>3 DEF TypeOK
    <2>3. ASSUME NEW d \in Consoles
          PROVE  LET u == Shell[d] IN
                 /\ console'[u] = d
                 /\ pc'[u] \in ShellPCs
                 /\ pc'[u] \in {"prompt", "reading", "command"} =>
                      child'[u] = NoTask /\ foreground'[d] = u
                 /\ pc'[u] \in {"created", "readied", "joining"} =>
                      /\ child'[u] \in Programs /\ InRing(child[u])' /\ console'[child'[u]] = d
                      /\ foreground'[d] = child'[u]
                           \/ (foreground'[d] = u /\ pc'[child'[u]] = "exited")
      <3>1. CASE d = c
        BY <3>1, <2>2, <1>2, <1>6 DEF FocusOK, ShellPCs
      <3>2. CASE d # c
        BY <3>2, <1>6, <1>7 DEF FocusOK
      <3>3. QED BY <3>1, <3>2
    <2> HIDE DEF IndInv
    <2>4. QED BY <2>1, <2>3 DEF FocusOK
  <1>9. JoinOK'
    <2>1. ASSUME NEW t \in TaskSet, join'[t] # NoTask
          PROVE  \E d \in Consoles :
                   pc'[Shell[d]] = "joining" /\ child'[Shell[d]] = t /\ join'[t] = Shell[d]
      <3>1. t # p /\ join[t] = join'[t]
        BY <2>1, <1>1, <1>2 DEF TypeOK
      <3>2. PICK d \in Consoles :
              pc[Shell[d]] = "joining" /\ child[Shell[d]] = t /\ join[t] = Shell[d]
        BY <3>1, <2>1 DEF JoinOK
      <3>3. d # c
        BY <3>2, <1>1
      <3>4. QED BY <3>1, <3>2, <3>3, <1>6
    <2>2. ASSUME NEW d \in Consoles, state'[Shell[d]] = "JOINING"
          PROVE  pc'[Shell[d]] = "joining" /\ join'[child'[Shell[d]]] = Shell[d]
      <3>1. CASE d = c
        <4>1. state[s] # "JOINING"
          BY <1>1 DEF JoinOK
        <4> HIDE DEF IndInv
        <4>2. QED BY <2>2, <3>1, <4>1, <1>6
      <3>2. CASE d # c
        <4>1. pc[Shell[d]] = "joining" => child[Shell[d]] \in Programs
          BY DEF FocusOK
        <4>2. state[Shell[d]] = "JOINING" =>
                pc[Shell[d]] = "joining" /\ join[child[Shell[d]]] = Shell[d]
          BY DEF JoinOK
        <4> HIDE DEF IndInv, s
        <4>3. QED BY <2>2, <3>2, <4>1, <4>2, <1>6, <1>7
      <3>3. QED BY <3>1, <3>2
    <2> HIDE DEF IndInv
    <2>3. QED BY <2>1, <2>2 DEF JoinOK
  <1>10. QED BY <1>4, <1>5, <1>8, <1>9

\* Removing a command wakes nobody but the shell that removes it, and leaves
\* that shell with the focus.
LEMMA ShellReapInv ==
  ASSUME IndInv, NEW c \in Consoles, ShellReap(c) PROVE IndInv'
  <1> USE DEF IndInv
  <1> DEFINE s == Shell[c]
             p == child[s]
  <1>1. /\ current' = current /\ quantum' = quantum /\ current = s /\ pc[s] = "joining"
        /\ state' = [WakeJoiner(state, p) EXCEPT ![p] = "PAUSED"]
        /\ join' = [join EXCEPT ![p] = NoTask]
        /\ foreground' = IF foreground[console[p]] = p
                         THEN [foreground EXCEPT ![console[p]] = Shell[console[p]]]
                         ELSE foreground
        /\ atomic' = [atomic EXCEPT ![p] = 0]
        /\ left' = [left EXCEPT ![p] = 0]
        /\ console' = [console EXCEPT ![p] = 0]
        /\ pc' = [pc EXCEPT ![s] = "prompt", ![p] = "run"]
        /\ child' = [child EXCEPT ![s] = NoTask]
        /\ target' = target
    BY DEF ShellReap, TaskRemove
  <1>2. PICK n \in DOMAIN ring : ring[n] = p /\ ring' = WithoutPos(ring, n)
    BY DEF ShellReap, TaskRemove
  <1>3. /\ p \in Programs /\ p \in TaskSet /\ s \in Shells /\ s \in TaskSet /\ s # p
        /\ console[p] = c /\ console[s] = c
        /\ foreground[c] = p \/ foreground[c] = s
    BY <1>1, TaskFacts DEF FocusOK
  <1>4. /\ ring' \in Seq(TaskSet)
        /\ \A t \in TaskSet : InRing(t)' <=> (InRing(t) /\ t # p)
        /\ \A i, j \in DOMAIN ring' : ring'[i] = ring'[j] => i = j
    BY <1>2, <1>3, RemoveFacts DEF TypeOK, ListOK
  <1>5. join[p] = NoTask \/ join[p] = s
    <2>1. SUFFICES ASSUME join[p] # NoTask PROVE join[p] = s
      OBVIOUS
    <2>2. PICK d \in Consoles : child[Shell[d]] = p /\ join[p] = Shell[d]
      BY <2>1, <1>3 DEF JoinOK
    <2>3. d = c
      BY <2>2, <1>3, TaskFacts, SeparateFacts
    <2>4. QED BY <2>2, <2>3
  <1>6. /\ state' \in [TaskSet -> States]
        /\ \A t \in TaskSet : t # p /\ t # s => state'[t] = state[t]
        /\ state'[s] \in {state[s], "RUNNING"}
    BY <1>1, <1>3, <1>5 DEF WakeJoiner, TypeOK, States
  <1>7. TypeOK'
    <2>1. join' \in [TaskSet -> Shells \union {NoTask}]
      BY <1>1 DEF TypeOK
    <2>2. 0 \in 0 .. MaxAtomic /\ 0 \in 0 .. MaxSleep + 1
      BY TaskFacts
    <2>3. atomic' \in [TaskSet -> 0 .. MaxAtomic] /\ left' \in [TaskSet -> 0 .. MaxSleep + 1]
      BY <1>1, <2>2 DEF TypeOK
    <2>4. console' \in [TaskSet -> Consoles]
      BY <1>1, TaskFacts DEF TypeOK
    <2>5. foreground' \in [Consoles -> TaskSet]
      BY <1>1, <1>3 DEF TypeOK
    <2>6. child' \in [Shells -> Programs \union {NoTask}]
      BY <1>1 DEF TypeOK
    <2>7. pc' \in [TaskSet -> PCs]
      BY <1>1 DEF TypeOK, ShellPCs, PCs
    <2>8. QED BY <1>1, <1>4, <1>6, <2>1, <2>3, <2>4, <2>5, <2>6, <2>7 DEF TypeOK
  <1>8. ListOK'
    BY <1>1, <1>3, <1>4, TaskFacts DEF ListOK
  <1>9. ASSUME NEW d \in Consoles
        PROVE  /\ Shell[d] \in TaskSet /\ Shell[d] \in Shells /\ Shell[d] # p
               /\ d = c <=> Shell[d] = s
               /\ child'[Shell[d]] = IF d = c THEN NoTask ELSE child[Shell[d]]
               /\ pc'[Shell[d]] = IF d = c THEN "prompt" ELSE pc[Shell[d]]
               /\ console'[Shell[d]] = console[Shell[d]]
               /\ foreground'[d] = IF d = c THEN s ELSE foreground[d]
    <2>1. /\ Shell[d] \in TaskSet /\ Shell[d] \in Shells /\ Shell[d] # p
          /\ d = c <=> Shell[d] = s
      BY <1>3, TaskFacts
    <2>2. QED BY <1>1, <1>3, <2>1 DEF TypeOK
  <1>10. ASSUME NEW d \in Consoles, d # c, child[Shell[d]] \in Programs
         PROVE  /\ child[Shell[d]] # p /\ InRing(child[Shell[d]])'
                /\ console'[child[Shell[d]]] = d
                /\ pc'[child[Shell[d]]] = pc[child[Shell[d]]]
                /\ join'[child[Shell[d]]] = join[child[Shell[d]]]
    <2> DEFINE q == child[Shell[d]]
    <2>1. q \in TaskSet /\ InRing(q) /\ console[q] = d /\ q # NoTask
      BY <1>10, TaskFacts, ChildFacts
    <2>2. q # p /\ q # s
      BY <2>1, <1>3, <1>10, SeparateFacts, TaskFacts
    <2>3. /\ console'[q] = d /\ pc'[q] = pc[q] /\ join'[q] = join[q]
      BY <2>1, <2>2, <1>1 DEF TypeOK
    <2>4. child'[Shell[d]] = child[Shell[d]]
      BY <1>9, <1>10
    <2>5. InRing(child[Shell[d]])'
      BY <2>1, <2>2, <2>4, <1>4
    <2>6. QED BY <2>2, <2>3, <2>5
  <1>11. FocusOK'
    <2>1. ASSUME NEW q \in Programs, InRing(q)'
          PROVE  \E d \in Consoles : child'[Shell[d]] = q
      <3>1. InRing(q) /\ q # p
        BY <2>1, <1>4, TaskFacts
      <3>2. PICK d \in Consoles : child[Shell[d]] = q
        BY <3>1 DEF FocusOK
      <3>3. QED BY <3>1, <3>2, <1>9
    <2>2. ASSUME NEW d \in Consoles
          PROVE  LET u == Shell[d] IN
                 /\ console'[u] = d
                 /\ pc'[u] \in ShellPCs
                 /\ pc'[u] \in {"prompt", "reading", "command"} =>
                      child'[u] = NoTask /\ foreground'[d] = u
                 /\ pc'[u] \in {"created", "readied", "joining"} =>
                      /\ child'[u] \in Programs /\ InRing(child[u])' /\ console'[child'[u]] = d
                      /\ foreground'[d] = child'[u]
                           \/ (foreground'[d] = u /\ pc'[child'[u]] = "exited")
      <3>1. CASE d = c
        BY <3>1, <1>3, <1>9 DEF ShellPCs
      <3>2. CASE d # c
        <4>1. /\ console[Shell[d]] = d /\ pc[Shell[d]] \in ShellPCs
              /\ pc[Shell[d]] \in {"prompt", "reading", "command"} =>
                   child[Shell[d]] = NoTask /\ foreground[d] = Shell[d]
              /\ pc[Shell[d]] \in {"created", "readied", "joining"} =>
                   /\ child[Shell[d]] \in Programs
                   /\ foreground[d] = child[Shell[d]]
                        \/ (foreground[d] = Shell[d] /\ pc[child[Shell[d]]] = "exited")
          BY DEF FocusOK
        <4> HIDE DEF IndInv, s, p
        <4>2. QED BY <3>2, <4>1, <1>9, <1>10
      <3>3. QED BY <3>1, <3>2
    <2> HIDE DEF IndInv
    <2>3. QED BY <2>1, <2>2 DEF FocusOK
  <1>12. JoinOK'
    <2>1. ASSUME NEW t \in TaskSet, join'[t] # NoTask
          PROVE  \E d \in Consoles :
                   pc'[Shell[d]] = "joining" /\ child'[Shell[d]] = t /\ join'[t] = Shell[d]
      <3>1. t # p /\ join[t] = join'[t]
        BY <2>1, <1>1, <1>3 DEF TypeOK
      <3>2. PICK d \in Consoles :
              pc[Shell[d]] = "joining" /\ child[Shell[d]] = t /\ join[t] = Shell[d]
        BY <3>1, <2>1 DEF JoinOK
      <3>3. QED BY <3>1, <3>2, <1>9
    <2>2. ASSUME NEW d \in Consoles, state'[Shell[d]] = "JOINING"
          PROVE  pc'[Shell[d]] = "joining" /\ join'[child'[Shell[d]]] = Shell[d]
      <3>1. CASE d = c
        <4>1. state[s] = "JOINING" => join[p] = s
          BY DEF JoinOK
        <4>2. state[s] = "JOINING" => state'[s] = "RUNNING"
          BY <4>1, <1>1, <1>3, TaskFacts DEF WakeJoiner, TypeOK
        <4>3. QED BY <2>2, <3>1, <4>2, <1>6, <1>9
      <3>2. CASE d # c
        <4>1. pc[Shell[d]] = "joining" => child[Shell[d]] \in Programs
          BY DEF FocusOK
        <4>2. state[Shell[d]] = "JOINING" =>
                pc[Shell[d]] = "joining" /\ join[child[Shell[d]]] = Shell[d]
          BY DEF JoinOK
        <4>3. state'[Shell[d]] = state[Shell[d]]
          BY <3>2, <1>6, <1>9
        <4> HIDE DEF IndInv, s, p
        <4>4. QED BY <2>2, <3>2, <4>1, <4>2, <4>3, <1>9, <1>10
      <3>3. QED BY <3>1, <3>2
    <2> HIDE DEF IndInv
    <2>3. QED BY <2>1, <2>2 DEF JoinOK
  <1>13. QED BY <1>7, <1>8, <1>11, <1>12

-----------------------------------------------------------------------------
(* The theorems *)

\* Every step of the kernel keeps the invariant.
LEMMA NextInv == IndInv /\ [Next]_vars => IndInv'
  <1> SUFFICES ASSUME IndInv, [Next]_vars PROVE IndInv'
    OBVIOUS
  <1>1. CASE TickAtomic \/ TickQuantum
    BY <1>1, TickInv
  <1>2. CASE TickSwitch
    BY <1>2, TickSwitchInv
  <1>3. ASSUME NEW c \in Consoles, ShellStep(c) \/ Newline(c) PROVE IndInv'
    BY <1>3, PromptInv, ShellReadyInv, ShellJoinInv, ShellReapInv, ShellCreateInv,
       NewlineInv DEF ShellStep
  <1>4. ASSUME NEW p \in Programs, ProgramStep(p) PROVE IndInv'
    BY <1>4, TaskFacts, ReadInv, TickInv, ExitInv, SleepInv, KillInv,
       SemWaitInv, SemWaitForInv, SemSignalInv DEF ProgramStep
  <1>5. CASE UNCHANGED vars
    <2> USE DEF vars, IndInv
    <2>1. TypeOK'
      BY <1>5 DEF TypeOK
    <2>2. ListOK' /\ FocusOK'
      BY <1>5, SameListFocus
    <2>3. JoinOK'
      BY <1>5 DEF JoinOK
    <2>4. QED BY <2>1, <2>2, <2>3
  <1>6. CASE NewlineReady
    BY <1>6, NewlineReadyInv
  <1>7. QED BY <1>1, <1>2, <1>3, <1>4, <1>5, <1>6 DEF Next

\* The invariant holds in every state of every behaviour, for any number of
\* consoles and programs, any quantum and any bounds.
THEOREM Invariance == Spec => []IndInv
  <1>1. Init => IndInv
    BY InitInv
  <1>2. IndInv /\ [Next]_vars => IndInv'
    BY NextInv
  <1>3. QED BY <1>1, <1>2, PTL DEF Spec

\* Type correctness of the task list and the scheduler.
THEOREM TypeCorrect == Spec => []TypeOK
  <1>1. IndInv => TypeOK
    BY DEF IndInv
  <1>2. QED BY <1>1, Invariance, PTL

\* No pointer to a task that the kernel keeps leads out of the task list.
THEOREM NoDangling == Spec => []NoDanglingTask
  <1>1. IndInv => NoDanglingTask
    <2> SUFFICES ASSUME IndInv PROVE NoDanglingTask
      OBVIOUS
    <2> USE DEF IndInv
    <2>1. ASSUME NEW c \in Consoles
          PROVE  InRing(foreground[c]) /\ console[foreground[c]] = c
      BY <2>1 DEF FocusOK, ListOK, ShellPCs
    <2>2. ASSUME NEW t \in TaskSet, join[t] # NoTask
          PROVE  InRing(t) /\ InRing(join[t])
      <3>1. PICK c \in Consoles :
              pc[Shell[c]] = "joining" /\ child[Shell[c]] = t /\ join[t] = Shell[c]
        BY <2>2 DEF JoinOK
      <3>2. QED BY <3>1 DEF FocusOK, ListOK
    <2>3. ASSUME NEW s \in Shells, child[s] # NoTask PROVE InRing(child[s])
      <3>1. PICK c \in Consoles : Shell[c] = s
        BY TaskFacts
      <3>2. QED BY <3>1, <2>3, ChildFacts
    <2>4. QED BY <2>1, <2>2, <2>3 DEF NoDanglingTask, ListOK
  <1>2. QED BY <1>1, Invariance, PTL

\* A shell asleep in task_join is registered with the command it waits for.
THEOREM JoinersRegistered == Spec => []JoinerIsRegistered
  <1>1. IndInv => JoinerIsRegistered
    BY DEF IndInv, JoinOK, JoinerIsRegistered
  <1>2. QED BY <1>1, Invariance, PTL

\* At the prompt, the console sends its lines to the shell.
THEOREM PromptFocused == Spec => []PromptHasFocus
  <1>1. IndInv => PromptHasFocus
    BY DEF IndInv, FocusOK, PromptHasFocus
  <1>2. QED BY <1>1, Invariance, PTL

\* Two shells never run the same command, and a command is on its shell's
\* console.
THEOREM ChildrenSeparate == Spec => []ChildrenAreSeparate
<1>1. IndInv => ChildrenAreSeparate
  BY ChildFacts, SeparateFacts, TaskFacts DEF IndInv, FocusOK, ChildrenAreSeparate
<1>2. QED BY <1>1, Invariance, PTL

\* A task in an atomic section is never preempted by the timer, nor by a call of
\* anybody else.
THEOREM AtomicKeepsCPU == Spec => AtomicNotPreempted
  <1>1. ASSUME IndInv, [Next]_vars
        PROVE  [current' # current /\ atomic[current] > 0
                  => state'[current] # "RUNNING" \/ WaitsForOther]_vars
    <2> SUFFICES ASSUME current' # current, atomic[current] > 0
                 PROVE  state'[current] # "RUNNING" \/ WaitsForOther
      OBVIOUS
    <2> USE DEF IndInv
    <2>1. ASSUME NEW st \in [TaskSet -> States], NEW lf \in [TaskSet -> Nat],
                 Switch(st, lf),
                 \/ st[current] \in {"PAUSED", "JOINING", "ZOMBIE"}
                 \/ st[current] = "SLEEPING" /\ lf[current] # 0
          PROVE  state'[current] # "RUNNING"
      <3>1. \A t \in TaskSet :
              \/ state'[t] = st[t]
              \/ st[t] = "SLEEPING" /\ lf[t] = 0 /\ state'[t] = "RUNNING"
        BY <1>1, <2>1, SwitchFacts
      <3>2. QED BY <1>1, <2>1, <3>1 DEF TypeOK
    <2>2. /\ current \in TaskSet /\ state \in [TaskSet -> States]
          /\ left \in [TaskSet -> Nat]
      <3>1. left \in [TaskSet -> 0 .. MaxSleep + 1] /\ MaxSleep \in Nat
        BY <1>1, TaskFacts DEF TypeOK
      <3>2. left \in [TaskSet -> Nat]
        BY <3>1
      <3>3. QED BY <1>1, <3>2 DEF TypeOK
    <2>3. ASSUME NEW c \in Consoles, ShellStep(c) PROVE state'[current] # "RUNNING"
      <3>1. CASE ShellRead(c)
        <4>1. [state EXCEPT ![current] = "PAUSED"] \in [TaskSet -> States]
          BY <2>2 DEF States
        <4>2. QED BY <3>1, <4>1, <2>1, <2>2 DEF ShellRead
      <3>2. CASE ShellJoin(c)
        <4>1. [state EXCEPT ![current] = "JOINING"] \in [TaskSet -> States]
          BY <2>2 DEF States
        <4>2. QED BY <3>2, <4>1, <2>1, <2>2 DEF ShellJoin
      <3>3. QED BY <2>3, <3>1, <3>2
                DEF ShellStep, ShellLine, ShellReady, ShellReap, ShellCreate
    <2>4. ASSUME NEW p \in Programs, ProgramStep(p)
          PROVE  state'[current] # "RUNNING" \/ WaitsForOther
      <3>1. CASE Read(p)
        <4>1. [state EXCEPT ![current] = "PAUSED"] \in [TaskSet -> States]
          BY <2>2 DEF States
        <4>2. QED BY <3>1, <4>1, <2>1, <2>2 DEF Read
      <3>2. ASSUME NEW d \in 0 .. MaxSleep, Sleep(p, d) PROVE state'[current] # "RUNNING"
        <4>1. [state EXCEPT ![current] = "SLEEPING"] \in [TaskSet -> States]
          BY <2>2 DEF States
        <4>2. /\ left' = [left EXCEPT ![current] = d + 1]
              /\ Switch([state EXCEPT ![current] = "SLEEPING"], left')
          BY <3>2 DEF Sleep
        <4>3. left' \in [TaskSet -> Nat] /\ left'[current] # 0
          BY <4>2, <2>2, TaskFacts
        <4>4. QED BY <4>1, <4>2, <4>3, <2>1, <2>2
      <3>3. CASE Exit(p)
        <4>1. join[p] # NoTask => join[p] \in TaskSet
          BY <1>1, TaskFacts DEF TypeOK
        <4>2. /\ [WakeJoiner(state, p) EXCEPT ![p] = "ZOMBIE"] \in [TaskSet -> States]
              /\ [WakeJoiner(state, p) EXCEPT ![p] = "ZOMBIE"][p] = "ZOMBIE"
          BY <4>1, <2>2, TaskFacts DEF WakeJoiner, States
        <4>3. QED BY <3>3, <4>2, <2>1, <2>2 DEF Exit
      <3>4. ASSUME NEW t \in Waitable, SemWait(p, t)
            PROVE  state'[current] # "RUNNING" \/ WaitsForOther
        <4>1. CASE t = current
          <5>1. [state EXCEPT ![current] = "PAUSED"] \in [TaskSet -> States]
            BY <2>2 DEF States
          <5>2. QED BY <3>4, <4>1, <5>1, <2>1, <2>2 DEF SemWait
        <4>2. CASE t # current
          BY <3>4, <4>2 DEF SemWait, WaitsForOther
        <4>3. QED BY <4>1, <4>2
      <3>5. ASSUME NEW t \in Waitable, NEW d \in 0 .. MaxSleep, SemWaitFor(p, t, d)
            PROVE  state'[current] # "RUNNING" \/ WaitsForOther
        <4>1. CASE t = current
          <5>1. [state EXCEPT ![current] = "SLEEPING"] \in [TaskSet -> States]
            BY <2>2 DEF States
          <5>2. /\ left' = [left EXCEPT ![current] = d + 1]
                /\ Switch([state EXCEPT ![current] = "SLEEPING"], left')
            BY <3>5, <4>1 DEF SemWaitFor
          <5>3. left' \in [TaskSet -> Nat] /\ left'[current] # 0
            BY <5>2, <2>2, TaskFacts
          <5>4. QED BY <5>1, <5>2, <5>3, <2>1, <2>2
        <4>2. CASE t # current
          <5>1. SemWaitFor(current, t, d)
            BY <3>5 DEF SemWaitFor
          <5>2. QED BY <5>1, <4>2 DEF WaitsForOther
        <4>3. QED BY <4>1, <4>2
      <3>6. QED BY <2>4, <3>1, <3>2, <3>3, <3>4, <3>5
                DEF ProgramStep, Atomic, Unatomic, Kill, SemSignal
    <2>5. QED BY <1>1, <2>2, <2>3, <2>4, TaskFacts
              DEF Next, vars, TickAtomic, TickQuantum, TickSwitch, Newline, NewlineReady
  <1>2. QED BY <1>1, Invariance, PTL DEF Spec, AtomicNotPreempted

-----------------------------------------------------------------------------
(* Round robin                                                               *)

\* The current task is not ahead of anybody.
CurrentIsBehind == \A t \in TaskSet : current \notin Ahead(t)

\* That is so in a list that holds no task twice.
LEMMA NotAhead == TypeOK /\ ListOK => CurrentIsBehind
  <1> SUFFICES ASSUME TypeOK, ListOK, NEW i \in DOMAIN ring, NEW j \in DOMAIN ring,
                      NEW m \in DOMAIN ring,
                      ring[i] = current, ring[j] = current, InOrder(i, j, m)
               PROVE  FALSE
    BY DEF Ahead, CurrentIsBehind
  <1>1. ring \in Seq(TaskSet)
    BY DEF TypeOK
  <1>2. i \in Int /\ m \in Int
    BY <1>1
  <1>3. i = j
    BY DEF ListOK
  <1>4. QED BY <1>2, <1>3 DEF InOrder

\* The task_next of every caller: the CPU goes to a task ahead of any that is
\* ready, and of any due sleeper that the scan did not meet; and those before it
\* in the list are not ahead any more.
LEMMA SwitchAhead ==
  ASSUME TypeOK, ListOK,
         NEW st \in [TaskSet -> States], NEW lf \in [TaskSet -> Nat],
         Switch(st, lf), ring' = ring,
         NEW t \in TaskSet, InRing(t), t # current, t # current',
         \/ st[t] = "RUNNING"
         \/ st[t] = "SLEEPING" /\ lf[t] = 0 /\ state'[t] = "SLEEPING"
  PROVE  Ahead(t)' \subseteq Ahead(t) /\ current' \in Ahead(t)
  <1> DEFINE L == Len(ring)
             Scanned(i, j) == ring[After(i, j)]
             Stop(i, j)    == st[Scanned(i, j)] = "RUNNING" \/ Scanned(i, j) = current
  <1>1. PICK i \in DOMAIN ring, k \in DOMAIN ring :
          /\ ring[i] = current
          /\ Stop(i, k)
          /\ \A j \in 1 .. k - 1 : ~Stop(i, j)
          /\ current' = IF Scanned(i, k) = current THEN NullTask ELSE Scanned(i, k)
          /\ state' = [u \in TaskSet |->
                         IF /\ st[u] = "SLEEPING" /\ lf[u] = 0
                            /\ \E j \in 1 .. k - 1 : Scanned(i, j) = u
                         THEN "RUNNING" ELSE st[u]]
    BY DEF Switch
  <1>2. L \in Nat /\ DOMAIN ring = 1 .. L /\ \A j \in DOMAIN ring : ring[j] \in TaskSet
    <2>1. ring \in Seq(TaskSet)
      BY DEF TypeOK
    <2>2. QED BY <2>1
  <1>3. \A a, b \in 1 .. L : ring[a] = ring[b] => a = b
    BY <1>2 DEF ListOK
  <1>4. PICK m \in 1 .. L : ring[m] = t
    BY <1>2 DEF InRing
  <1>5. m # i
    BY <1>1, <1>4
  <1> DEFINE d == IF m > i THEN m - i ELSE m - i + L
  <1>6. d \in 1 .. L - 1 /\ After(i, d) = m
    <2> HIDE DEF Stop
    <2>1. i \in 1 .. L /\ m \in 1 .. L /\ L \in Nat
      BY <1>1, <1>2, <1>4
    <2>2. QED BY <2>1, <1>5 DEF After
  <1>7. Scanned(i, d) = t
    BY <1>4, <1>6
  <1>8. k <= d
    <2>1. SUFFICES ASSUME ~(k <= d) PROVE FALSE
      OBVIOUS
    <2> HIDE DEF d
    <2>2. d \in 1 .. k - 1
      BY <2>1, <1>1, <1>2, <1>6
    <2>3. st[t] # "RUNNING"
      BY <2>2, <1>1, <1>7
    <2>4. state'[t] = "RUNNING"
      <3> HIDE DEF Scanned, Stop
      <3>1. QED BY <2>2, <2>3, <1>1, <1>7
    <2>5. QED BY <2>3, <2>4
  <1> DEFINE n == After(i, k)
  <1>9. n \in 1 .. L /\ n # i
    <2>1. i \in 1 .. L /\ k \in 1 .. L /\ L \in Nat /\ k < L
      <3> HIDE DEF Stop, d
      <3>1. QED BY <1>1, <1>2, <1>6, <1>8
    <2>2. QED BY <2>1 DEF After
  <1>10. current' = ring[n]
    BY <1>1, <1>2, <1>3, <1>9
  <1>11. n # m
    BY <1>4, <1>10
  <1>12. InOrder(i, n, m)
    <2>1. i \in 1 .. L /\ m \in 1 .. L /\ k \in 1 .. L
      BY <1>1, <1>2, <1>4
    <2>2. k <= (IF m > i THEN m - i ELSE m - i + L)
      BY <1>8
    <2>3. n = (IF i + k <= L THEN i + k ELSE i + k - L)
      BY DEF After
    <2>4. L \in Nat /\ m # i /\ n # m
      BY <1>2, <1>5, <1>11
    <2> HIDE DEF n, d, L, Stop, Scanned
    <2>5. QED BY <2>1, <2>2, <2>3, <2>4 DEF InOrder
  <1> HIDE DEF n, d, Stop
  <1>13. current' \in Ahead(t)
    BY <1>1, <1>2, <1>4, <1>9, <1>10, <1>12 DEF Ahead
  <1>14. ASSUME NEW u \in TaskSet, u \in Ahead(t)' PROVE u \in Ahead(t)
    <2>1. PICK n1 \in DOMAIN ring, j \in DOMAIN ring, m1 \in DOMAIN ring :
            ring[n1] = current' /\ ring[j] = u /\ ring[m1] = t /\ InOrder(n1, j, m1)
      BY <1>14 DEF Ahead
    <2>2. n1 = n /\ m1 = m
      BY <2>1, <1>2, <1>3, <1>4, <1>9, <1>10
    <2>3. InOrder(i, j, m)
      BY <2>1, <2>2, <1>1, <1>2, <1>9, <1>12 DEF InOrder
    <2>4. QED BY <2>1, <2>2, <2>3, <1>1 DEF Ahead
  <1>15. QED BY <1>13, <1>14 DEF Ahead

\* A task that is linked comes to the end of the list.
LEMMA AppendAhead ==
  ASSUME TypeOK, ListOK, NEW p \in TaskSet, ~InRing(p),
         ring' = Append(ring, p), current' = current,
         NEW t \in TaskSet, InRing(t)
  PROVE  Ahead(t)' \subseteq Ahead(t) \union {p}
  <1>1. /\ Len(ring) \in Nat /\ DOMAIN ring = 1 .. Len(ring)
        /\ DOMAIN ring' = 1 .. Len(ring) + 1 /\ ring'[Len(ring) + 1] = p
        /\ \A j \in 1 .. Len(ring) : ring'[j] = ring[j]
    <2>1. ring \in Seq(TaskSet)
      BY DEF TypeOK
    <2>2. QED BY <2>1
  <1>2. ASSUME NEW u \in TaskSet, u # p, u \in Ahead(t)' PROVE u \in Ahead(t)
    <2>1. PICK i \in DOMAIN ring', j \in DOMAIN ring', m \in DOMAIN ring' :
            ring'[i] = current /\ ring'[j] = u /\ ring'[m] = t /\ InOrder(i, j, m)
      BY <1>2 DEF Ahead
    <2>2. current # p /\ t # p
      BY DEF ListOK
    <2>3. i \in DOMAIN ring /\ j \in DOMAIN ring /\ m \in DOMAIN ring
      BY <1>1, <1>2, <2>1, <2>2
    <2>4. ring[i] = current /\ ring[j] = u /\ ring[m] = t
      BY <1>1, <2>1, <2>3
    <2>5. QED BY <2>1, <2>3, <2>4 DEF Ahead
  <1>3. QED BY <1>2 DEF Ahead

\* Unlinking a task leaves the others in their order.
LEMMA RemoveAhead ==
  ASSUME TypeOK, NEW r \in DOMAIN ring, ring' = WithoutPos(ring, r), current' = current,
         NEW t \in TaskSet
  PROVE  Ahead(t)' \subseteq Ahead(t)
  <1> DEFINE Old(j) == IF j < r THEN j ELSE j + 1
  <1>1. /\ Len(ring) \in Nat /\ DOMAIN ring = 1 .. Len(ring)
        /\ DOMAIN ring' = 1 .. Len(ring) - 1
        /\ \A j \in DOMAIN ring' : Old(j) \in DOMAIN ring /\ ring'[j] = ring[Old(j)]
    <2>1. ring \in Seq(TaskSet)
      BY DEF TypeOK
    <2>2. Len(ring) \in Nat /\ DOMAIN ring = 1 .. Len(ring)
      BY <2>1
    <2>3. QED BY <2>2 DEF WithoutPos
  <1>2. ASSUME NEW u \in TaskSet, u \in Ahead(t)' PROVE u \in Ahead(t)
    <2>1. PICK i \in DOMAIN ring', j \in DOMAIN ring', m \in DOMAIN ring' :
            ring'[i] = current /\ ring'[j] = u /\ ring'[m] = t /\ InOrder(i, j, m)
      BY <1>2 DEF Ahead
    <2>2. InOrder(Old(i), Old(j), Old(m))
      BY <1>1, <2>1 DEF InOrder
    <2> HIDE DEF Old
    <2>3. /\ Old(i) \in DOMAIN ring /\ Old(j) \in DOMAIN ring /\ Old(m) \in DOMAIN ring
          /\ ring[Old(i)] = current /\ ring[Old(j)] = u /\ ring[Old(m)] = t
      BY <1>1, <2>1
    <2>4. QED BY <2>2, <2>3 DEF Ahead
  <1>3. QED BY <1>2 DEF Ahead

\* The tasks other than the current one are as they were, or ready, or have just
\* been put to wait.
OthersKept(st, lf) ==
  \A t \in TaskSet : t # current =>
    st[t] \in {state[t], "RUNNING", "PAUSED"} \/ (st[t] = "SLEEPING" /\ lf[t] # 0)

\* A step hands out the CPU by task_next, from states in which the others are as
\* they were, ready, or just put to wait, or it leaves the CPU alone and at most links or unlinks one
\* task.
LEMMA StepKinds ==
  ASSUME IndInv, [Next]_vars
  PROVE  \/ /\ ring' = ring
            /\ \E st \in [TaskSet -> States], lf \in [TaskSet -> Nat] :
                 /\ Switch(st, lf)
                 /\ OthersKept(st, lf)
                 /\ lf = left'
         \/ /\ current' = current /\ quantum' <= quantum
            /\ \/ ring' = ring
               \/ \E p \in Programs : ~InRing(p) /\ ring' = Append(ring, p)
               \/ \E r \in DOMAIN ring : ring' = WithoutPos(ring, r)
  <1> DEFINE Gives == /\ ring' = ring
                      /\ \E st \in [TaskSet -> States], lf \in [TaskSet -> Nat] :
                           /\ Switch(st, lf)
                           /\ OthersKept(st, lf)
                           /\ lf = left'
             Keeps == /\ current' = current /\ quantum' <= quantum
                      /\ \/ ring' = ring
                         \/ \E p \in Programs : ~InRing(p) /\ ring' = Append(ring, p)
                         \/ \E r \in DOMAIN ring : ring' = WithoutPos(ring, r)
  <1> SUFFICES Gives \/ Keeps
    OBVIOUS
  <1>1. /\ current \in TaskSet /\ state \in [TaskSet -> States]
        /\ left \in [TaskSet -> Nat] /\ quantum \in Nat
        /\ join \in [TaskSet -> Shells \union {NoTask}]
    <2>1. left \in [TaskSet -> 0 .. MaxSleep + 1] /\ MaxSleep \in Nat /\ Quantum \in Nat
      BY TaskFacts DEF IndInv, TypeOK
    <2>2. left \in [TaskSet -> Nat]
      BY <2>1
    <2>3. quantum \in Nat
      BY <2>1 DEF IndInv, TypeOK
    <2>4. QED BY <2>2, <2>3 DEF IndInv, TypeOK
  <1>2. ASSUME NEW s \in States PROVE
          /\ [state EXCEPT ![current] = s] \in [TaskSet -> States]
          /\ \A lf \in [TaskSet -> Nat] : OthersKept([state EXCEPT ![current] = s], lf)
    BY <1>1 DEF OthersKept
  <1>3. {"PAUSED", "JOINING", "SLEEPING", "ZOMBIE", "RUNNING"} \subseteq States
    BY DEF States
  <1>4. CASE TickSwitch
    <2>1. left' \in [TaskSet -> Nat]
      <3>1. left' \in [TaskSet -> 0 .. MaxSleep + 1] /\ MaxSleep \in Nat
        BY <1>4, ElapseFacts, TaskFacts DEF TickSwitch, IndInv
      <3>2. QED BY <3>1
    <2>2. QED BY <1>1, <1>4, <2>1 DEF TickSwitch, OthersKept
  <1>5. ASSUME NEW c \in Consoles, ShellStep(c) PROVE Gives \/ Keeps
    <2>1. CASE ShellRead(c)
      <3>1. Switch([state EXCEPT ![current] = "PAUSED"], left) /\ ring' = ring /\ left' = left
        BY <2>1 DEF ShellRead
      <3>2. QED BY <3>1, <1>1, <1>2, <1>3
    <2>2. CASE ShellJoin(c)
      <3>1. Switch([state EXCEPT ![current] = "JOINING"], left) /\ ring' = ring /\ left' = left
        BY <2>2 DEF ShellJoin
      <3>2. QED BY <3>1, <1>1, <1>2, <1>3
    <2>3. ASSUME NEW p \in Programs, ShellCreate(c, p) PROVE Keeps
      BY <2>3, <1>1 DEF ShellCreate, TaskCreate
    <2>4. CASE ShellReap(c)
      BY <2>4, <1>1 DEF ShellReap, TaskRemove
    <2>5. CASE ShellLine(c) \/ ShellReady(c)
      BY <2>5, <1>1 DEF ShellLine, ShellReady
    <2>6. QED BY <1>5, <2>1, <2>2, <2>3, <2>4, <2>5 DEF ShellStep
  <1>6. ASSUME NEW p \in Programs, ProgramStep(p) PROVE Gives \/ Keeps
    <2>1. CASE Read(p)
      <3>1. Switch([state EXCEPT ![current] = "PAUSED"], left) /\ ring' = ring /\ left' = left
        BY <2>1 DEF Read
      <3>2. QED BY <3>1, <1>1, <1>2, <1>3
    <2>2. ASSUME NEW d \in 0 .. MaxSleep, Sleep(p, d) PROVE Gives
      <3>1. Switch([state EXCEPT ![current] = "SLEEPING"], left') /\ ring' = ring
        BY <2>2 DEF Sleep
      <3>2. left' \in [TaskSet -> Nat]
        BY <2>2, <1>1, TaskFacts DEF Sleep
      <3>3. QED BY <3>1, <3>2, <1>1, <1>2, <1>3
    <2>3. CASE Exit(p)
      <3> DEFINE st == [WakeJoiner(state, p) EXCEPT ![p] = "ZOMBIE"]
      <3>1. Switch(st, left) /\ ring' = ring /\ left' = left /\ current = p
        BY <2>3 DEF Exit
      <3>2. /\ st \in [TaskSet -> States]
            /\ OthersKept(st, left)
        BY <3>1, <1>1, <1>3, TaskFacts DEF WakeJoiner, OthersKept
      <3> HIDE DEF st
      <3>3. QED BY <3>1, <3>2, <1>1
    <2>4. CASE \/ Atomic(p) \/ Unatomic(p) \/ \E t \in Killable : Kill(p, t)
               \/ \E t \in Waitable : SemSignal(p, t)
      <3>1. current' = current /\ quantum' = quantum /\ ring' = ring
        BY <2>4 DEF Atomic, Unatomic, Kill, SemSignal
      <3>2. QED BY <3>1, <1>1
    <2>5. ASSUME NEW t \in Waitable, SemWait(p, t) PROVE Gives
      <3> DEFINE st == [state EXCEPT ![t] = "PAUSED"]
      <3>1. Switch(st, left) /\ ring' = ring /\ left' = left
        BY <2>5 DEF SemWait
      <3>2. st \in [TaskSet -> States] /\ OthersKept(st, left)
        BY <1>1, <1>3 DEF OthersKept
      <3> HIDE DEF st
      <3>3. QED BY <3>1, <3>2, <1>1
    <2>6. ASSUME NEW t \in Waitable, NEW d \in 0 .. MaxSleep, SemWaitFor(p, t, d) PROVE Gives
      <3> DEFINE st == [state EXCEPT ![t] = "SLEEPING"]
      <3>1. Switch(st, left') /\ ring' = ring /\ left' = [left EXCEPT ![t] = d + 1]
        BY <2>6 DEF SemWaitFor
      <3>2. t \in TaskSet /\ d + 1 \in Nat /\ d + 1 # 0
        BY TaskFacts
      <3>3. left' \in [TaskSet -> Nat]
        BY <3>1, <3>2, <1>1
      <3>4. left'[t] # 0
        BY <3>1, <3>2, <1>1
      <3>5. st \in [TaskSet -> States] /\ OthersKept(st, left')
        BY <3>2, <3>4, <1>1, <1>3 DEF OthersKept
      <3> HIDE DEF st
      <3>6. QED BY <3>1, <3>3, <3>5
    <2>7. QED BY <1>6, <2>1, <2>2, <2>3, <2>4, <2>5, <2>6 DEF ProgramStep
  <1>7. CASE TickAtomic \/ TickQuantum \/ NewlineReady \/ (\E c \in Consoles : Newline(c))
             \/ UNCHANGED vars
    BY <1>7, <1>1 DEF TickAtomic, TickQuantum, NewlineReady, Newline, vars
  <1>8. QED BY <1>4, <1>5, <1>6, <1>7 DEF Next

\* Nobody overtakes a task that waits for the CPU, for any number of consoles
\* and programs and any bounds: round robin without fairness.  With the timer
\* never stopping, it is why a ready task gets the CPU.
THEOREM RoundRobin == Spec => NobodyOvertakes
  <1>0. (TypeOK /\ ListOK)' => CurrentIsBehind'
    BY NotAhead, PTL
  <1>1. ASSUME IndInv, IndInv', [Next]_vars, NEW t \in TaskSet,
               InRing(t), t # current, InRing(t)', t # current',
               \/ state[t] = "RUNNING" /\ state'[t] = "RUNNING"
               \/ state[t] = "SLEEPING" /\ state'[t] = "SLEEPING" /\ left'[t] = 0
        PROVE  /\ Ahead(t)' \subseteq {u \in TaskSet : u \in Ahead(t) \/ ~InRing(u)} \ {current'}
               /\ current' # current \/ quantum' > quantum => current' \in Ahead(t)
    <2>1. TypeOK /\ ListOK /\ Ahead(t)' \subseteq TaskSet
      BY <1>1 DEF IndInv, Ahead
    <2>2. current' \notin Ahead(t)'
      <3>1. TypeOK' /\ ListOK'
        BY <1>1 DEF IndInv
      <3>2. QED BY <1>0, <3>1 DEF CurrentIsBehind
    <2>3. CASE /\ ring' = ring
               /\ \E st \in [TaskSet -> States], lf \in [TaskSet -> Nat] :
                    /\ Switch(st, lf)
                    /\ OthersKept(st, lf)
                    /\ lf = left'
      <3>1. PICK st \in [TaskSet -> States], lf \in [TaskSet -> Nat] :
              /\ Switch(st, lf)
              /\ OthersKept(st, lf)
              /\ lf = left'
        BY <2>3
      <3>2. \/ st[t] = "RUNNING"
            \/ st[t] = "SLEEPING" /\ lf[t] = 0 /\ state'[t] = "SLEEPING"
        <4>1. state'[t] = st[t] \/ (st[t] = "SLEEPING" /\ lf[t] = 0 /\ state'[t] = "RUNNING")
          BY <3>1, <2>1, SwitchFacts
        <4>2. st[t] \in {state[t], "RUNNING", "PAUSED"} \/ (st[t] = "SLEEPING" /\ lf[t] # 0)
          BY <1>1, <3>1 DEF OthersKept
        <4>3. QED BY <4>1, <4>2, <3>1, <1>1
      <3>3. Ahead(t)' \subseteq Ahead(t) /\ current' \in Ahead(t)
        BY <1>1, <2>1, <2>3, <3>1, <3>2, SwitchAhead
      <3>4. QED BY <3>3, <2>1, <2>2
    <2>4. CASE /\ current' = current /\ quantum' <= quantum
               /\ \/ ring' = ring
                  \/ \E p \in Programs : ~InRing(p) /\ ring' = Append(ring, p)
                  \/ \E r \in DOMAIN ring : ring' = WithoutPos(ring, r)
      <3>1. ~(current' # current \/ quantum' > quantum)
        <4>1. quantum \in Int /\ quantum' \in Int
          BY <1>1, TaskFacts DEF IndInv, TypeOK
        <4>2. QED BY <4>1, <2>4
      <3>2. CASE ring' = ring
        <4>1. Ahead(t)' = Ahead(t)
          BY <3>2, <2>4 DEF Ahead
        <4>2. QED BY <4>1, <3>1, <2>1, <2>2
      <3>3. ASSUME NEW p \in Programs, ~InRing(p), ring' = Append(ring, p)
            PROVE  Ahead(t)' \subseteq {u \in TaskSet : u \in Ahead(t) \/ ~InRing(u)}
        <4>1. Ahead(t)' \subseteq Ahead(t) \union {p}
          BY <3>3, <2>1, <2>4, <1>1, TaskFacts, AppendAhead
        <4>2. QED BY <4>1, <3>3, <2>1
      <3>4. ASSUME NEW r \in DOMAIN ring, ring' = WithoutPos(ring, r)
            PROVE  Ahead(t)' \subseteq Ahead(t)
        BY <3>4, <2>1, <2>4, RemoveAhead
      <3>5. QED BY <3>1, <3>2, <3>3, <3>4, <2>1, <2>2, <2>4
    <2>5. QED BY <1>1, <2>3, <2>4, StepKinds
  <1>2. ASSUME IndInv, IndInv', [Next]_vars
        PROVE  \A t \in TaskSet :
                 /\ InRing(t) /\ t # current /\ InRing(t)' /\ t # current'
                 /\ \/ state[t] = "RUNNING" /\ state'[t] = "RUNNING"
                    \/ state[t] = "SLEEPING" /\ state'[t] = "SLEEPING" /\ left'[t] = 0
                 =>
                   /\ Ahead(t)' \subseteq {u \in TaskSet : u \in Ahead(t) \/ ~InRing(u)} \ {current'}
                   /\ current' # current \/ quantum' > quantum => current' \in Ahead(t)
    BY <1>1, <1>2
  <1>3. QED BY <1>2, Invariance, PTL DEF Spec, NobodyOvertakes

-----------------------------------------------------------------------------
(* The loop of task_next                                                     *)

\* The loop of task_next, over the states st, starts at place i of the list and
\* stops k places further: the guard of Switch.
ScanStops(st, i, k) ==
  LET Scanned(j) == ring[After(i, j)]
      Stop(j)    == st[Scanned(j)] = "RUNNING" \/ Scanned(j) = current
  IN ring[i] = current /\ Stop(k) /\ \A j \in 1 .. k - 1 : ~Stop(j)

\* Some number is the least of those that stop a loop.
LEMMA LeastOf ==
  ASSUME NEW S \in SUBSET Nat, S # {}
  PROVE  \E k \in S : \A j \in S : k <= j
  <1>1. IsWellFoundedOn(OpToRel(<, Nat), Nat)
    BY NatLessThanWellFounded
  <1>2. PICK k \in S : \A j \in S : <<j, k>> \notin OpToRel(<, Nat)
    BY <1>1, WFMin
  <1>3. ASSUME NEW j \in S, j < k PROVE FALSE
    <2>1. <<j, k>> \in Nat \X Nat /\ <<j, k>>[1] < <<j, k>>[2]
      BY <1>3
    <2>2. <<j, k>> \in OpToRel(<, Nat)
      BY <2>1 DEF OpToRel
    <2>3. QED BY <1>2, <2>2
  <1>4. \A j \in S : k <= j
    BY <1>3
  <1>5. QED BY <1>4

\* task_next never loops for ever with interrupts disabled: whatever states a
\* system call leaves, in a list of any length that tasks came to and left in any
\* order, its loop stops after one turn at most, because the task it started
\* from is still there.
THEOREM ScanEnds ==
  Spec => [](\A st \in [TaskSet -> States] : \E i, k \in DOMAIN ring : ScanStops(st, i, k))
  <1>1. ASSUME IndInv, NEW st \in [TaskSet -> States]
        PROVE  \E i, k \in DOMAIN ring : ScanStops(st, i, k)
    <2>1. ring \in Seq(TaskSet)
      BY <1>1 DEF IndInv, TypeOK
    <2>2. Len(ring) \in Nat /\ DOMAIN ring = 1 .. Len(ring)
      BY <2>1
    <2>3. PICK i \in DOMAIN ring : ring[i] = current
      BY <1>1 DEF IndInv, ListOK, InRing
    <2> DEFINE Scanned(j) == ring[After(i, j)]
               Stop(j)    == st[Scanned(j)] = "RUNNING" \/ Scanned(j) = current
               S          == {j \in 1 .. Len(ring) : Stop(j)}
    <2>4. Len(ring) \in S
      <3>1. After(i, Len(ring)) = i
        BY <2>2 DEF After
      <3>2. Scanned(Len(ring)) = current
        BY <3>1, <2>3
      <3> HIDE DEF Scanned
      <3>3. QED BY <3>2, <2>2, <2>3
    <2>5. S \in SUBSET Nat
      BY <2>2
    <2> HIDE DEF Stop
    <2>6. PICK k \in S : \A j \in S : k <= j
      <3> HIDE DEF S
      <3>1. QED BY <2>4, <2>5, LeastOf
    <2>7. \A j \in 1 .. k - 1 : ~Stop(j)
      BY <2>2, <2>6
    <2>8. k \in DOMAIN ring /\ Stop(k)
      BY <2>2, <2>6
    <2>9. ScanStops(st, i, k)
      BY <2>3, <2>7, <2>8 DEF ScanStops, Stop
    <2>10. QED BY <2>8, <2>9
  <1>2. IndInv => \A st \in [TaskSet -> States] : \E i, k \in DOMAIN ring : ScanStops(st, i, k)
    BY <1>1
  <1>3. QED BY <1>2, Invariance, PTL

=============================================================================
