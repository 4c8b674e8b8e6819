--------------------------- MODULE PageFramesProofs ---------------------------
(***************************************************************************)
(* The frames of PageFrames, for any memory, any page tables and any order *)
(* of the loops: a frame has one use, the kernel's tables stay its own, and *)
(* only the last pages are lost.  The properties that the run checks are   *)
(* inductive together; an allocation (Allocation, Grown) and the end of a  *)
(* process (Pushed) carry the proof.                                       *)
(***************************************************************************)
EXTENDS PageFrames, SequenceTheorems, TLAPS

\* What is lost is never one of the kernel's tables: this, which no run states,
\* makes the other four inductive.
KernelNotLost == lost \intersect KernelUsed = {}

\* The tables of a process above its level 1 tables.
Upper == {<<4>>, <<3>>, <<2>>}

FInv == TypeOK /\ FrameExclusive /\ KernelTablesKept /\ FramesAccounted /\ KernelNotLost

\* The loops reach every place once.
LEMMA TurnUnique ==
  ASSUME NEW S \in SUBSET Places
  PROVE  /\ Visit(S) \in Seq(S)
         /\ \A s \in S : Turn(S, s) \in DOMAIN Visit(S) /\ Visit(S)[Turn(S, s)] = s
         /\ \A i \in DOMAIN Visit(S) : Visit(S)[i] \in S /\ Turn(S, Visit(S)[i]) = i
PROOF
<1>1. /\ Visit(S) \in Seq(S)
      /\ \A s \in S : \E i \in DOMAIN Visit(S) : Visit(S)[i] = s
      /\ \A i, j \in DOMAIN Visit(S) : Visit(S)[i] = Visit(S)[j] => i = j
  BY VisitAssumption
<1>2. \A i \in DOMAIN Visit(S) : Visit(S)[i] \in S
  BY <1>1
<1>3. \A s \in S : Turn(S, s) \in DOMAIN Visit(S) /\ Visit(S)[Turn(S, s)] = s
  BY <1>1 DEF Turn
<1> QED
  BY <1>1, <1>2, <1>3

\* What an allocation takes is the top of the stack, each frame once, and what it
\* leaves is the rest.
LEMMA Allocation ==
  ASSUME TypeOK, NEW S \in SUBSET Places, Available(S)
  PROVE  /\ Popped(S) \in Seq(Frames)
         /\ Len(Popped(S)) > 0
         /\ DOMAIN Popped(S) \subseteq DOMAIN stack
         /\ \A i \in DOMAIN Popped(S) : Popped(S)[i] = stack[i]
         /\ \A s \in S : \E i \in DOMAIN stack \ DOMAIN Popped(S) : TopFor(S, s) = stack[i]
         /\ FrameExclusive => \A s, t \in S : TopFor(S, s) = TopFor(S, t) => s = t
         /\ \A i \in DOMAIN stack \ DOMAIN Popped(S) : \E s \in S : TopFor(S, s) = stack[i]
PROOF
<1> DEFINE n == Len(Visit(S))
           m == Len(stack)
           U == Popped(S)
<1>1. m \in Nat /\ stack \in Seq(Frames) /\ DOMAIN stack = 1 .. m
  BY DEF TypeOK
<1>2. n \in Nat /\ DOMAIN Visit(S) = 1 .. n
  BY TurnUnique
<1>3. m > n
  BY DEF Available
<1>4. U \in Seq(Frames) /\ Len(U) = m - n /\ \A i \in 1 .. m - n : U[i] = stack[i]
  <2> DEFINE k == m - n
  <2>1. k \in Nat /\ k > 0 /\ U = SubSeq(stack, 1, k)
    BY <1>1, <1>2, <1>3 DEF Popped
  <2>2. \A i \in 1 .. k : stack[i] \in Frames
    BY <1>1, <1>2, <1>3
  <2> HIDE DEF k, U
  <2>3. /\ SubSeq(stack, 1, k) \in Seq(Frames)
        /\ Len(SubSeq(stack, 1, k)) = IF 1 <= k THEN k - 1 + 1 ELSE 0
        /\ \A i \in 1 .. k - 1 + 1 : SubSeq(stack, 1, k)[i] = stack[1 + i - 1]
    BY <2>1, <2>2, SubSeqProperties
  <2>4. Len(U) = k /\ \A i \in 1 .. k : U[i] = stack[i]
    BY <2>1, <2>3
  <2> QED
    BY <2>1, <2>3, <2>4 DEF k
<1>5. DOMAIN U = 1 .. m - n
  BY <1>4
<1>6. \A s \in S : Turn(S, s) \in 1 .. n /\ TopFor(S, s) = stack[m + 1 - Turn(S, s)]
  BY <1>2, TurnUnique DEF TopFor
<1> HIDE DEF n, m, U
<1>7. DOMAIN stack \ DOMAIN U = m - n + 1 .. m
  BY <1>1, <1>2, <1>3, <1>5
<1>8. \A s \in S : m + 1 - Turn(S, s) \in m - n + 1 .. m
  BY <1>1, <1>2, <1>3, <1>6
<1>9. \A i \in m - n + 1 .. m : m + 1 - i \in 1 .. n
  BY <1>1, <1>2, <1>3
<1>10. Len(U) > 0 /\ DOMAIN U \subseteq DOMAIN stack
  BY <1>1, <1>2, <1>3, <1>4, <1>5
<1>11. \A s \in S : \E i \in DOMAIN stack \ DOMAIN U : TopFor(S, s) = stack[i]
  BY <1>6, <1>7, <1>8
<1>12. ASSUME FrameExclusive, NEW s \in S, NEW t \in S, TopFor(S, s) = TopFor(S, t)
       PROVE  s = t
  <2>1. m + 1 - Turn(S, s) \in DOMAIN stack /\ m + 1 - Turn(S, t) \in DOMAIN stack
    BY <1>7, <1>8
  <2>2. m + 1 - Turn(S, s) = m + 1 - Turn(S, t)
    BY <1>6, <1>12, <2>1 DEF FrameExclusive
  <2>3. Turn(S, s) = Turn(S, t)
    BY <1>1, <1>2, <1>6, <2>2
  <2> QED
    BY <2>3, TurnUnique
<1>13. ASSUME NEW i \in DOMAIN stack \ DOMAIN U
       PROVE  \E s \in S : TopFor(S, s) = stack[i]
  <2>1. i \in m - n + 1 .. m /\ m + 1 - i \in 1 .. n
    BY <1>7, <1>9
  <2> DEFINE s == Visit(S)[m + 1 - i]
  <2>2. s \in S /\ Turn(S, s) = m + 1 - i
    BY <1>2, <2>1, TurnUnique
  <2>3. m + 1 - (m + 1 - i) = i
    BY <1>1, <1>2, <2>1
  <2>4. TopFor(S, s) = stack[i]
    BY <1>6, <2>2, <2>3
  <2> QED
    BY <2>2, <2>4
<1> QED
  BY <1>4, <1>5, <1>10, <1>11, <1>12, <1>13 DEF U

-----------------------------------------------------------------------------
LEMMA NewPlacesType ==
  /\ NewPlaces \in SUBSET Places
  /\ NewPlaces \intersect Shared = {}
  /\ Shared \subseteq Places
PROOF
<1>1. NewPlaces \subseteq Places /\ Shared \subseteq Places
  BY DEF NewPlaces, Places, Tables, Pages, Dirs, Shared
<1>2. ASSUME NEW s \in NewPlaces, s \in Shared PROVE FALSE
  <2>1. PICK d \in KernelDirs : s = <<1, d>>
    BY <1>2 DEF Shared
  <2>2. CASE s \in {<<4>>, <<3>>, <<2>>}
    BY <2>1, <2>2
  <2>3. CASE s \in {<<1, c>> : c \in StackDirs}
    BY <2>1, <2>3, PageFramesAssumption DEF Dirs
  <2>4. CASE s \in {<<0, c, e>> : c \in StackDirs, e \in 0 .. Entries - 1}
    BY <2>1, <2>4
  <2> QED
    BY <2>2, <2>3, <2>4 DEF NewPlaces
<1> QED
  BY <1>1, <1>2

LEMMA SharedFrames ==
  /\ \A s \in Shared : KTable[s[2]] \in KernelUsed /\ KTable[s[2]] \in Frames
  /\ \A s, t \in Shared : KTable[s[2]] = KTable[t[2]] => s = t
PROOF
  BY PageFramesAssumption DEF Shared, KernelUsed

\* A process points to the kernel's frames from the shared places only.
LEMMA KernelPlaces ==
  ASSUME FInv, NEW q \in Procs, NEW s \in Present(q)
  PROVE  /\ s \in Shared => frame[q][s] = KTable[s[2]]
         /\ s \notin Shared => frame[q][s] \notin KernelUsed
PROOF
<1>1. \A d \in KernelDirs : <<1, d>> \in Present(q) /\ frame[q][<<1, d>>] = KTable[d]
  BY DEF FInv, KernelTablesKept
<1>2. ASSUME s \in Shared PROVE frame[q][s] = KTable[s[2]]
  BY <1>1, <1>2 DEF Shared
<1>3. ASSUME s \notin Shared, frame[q][s] \in KernelUsed PROVE FALSE
  <2>1. PICK d \in KernelDirs : frame[q][s] = KTable[d]
    BY <1>3 DEF KernelUsed
  <2>2. <<1, d>> \in Present(q) /\ frame[q][s] = frame[q][<<1, d>>] /\ <<1, d>> \in Shared
    BY <1>1, <2>1 DEF Shared
  <2>3. s = <<1, d>>
    BY <1>3, <2>2 DEF FInv, FrameExclusive
  <2> QED
    BY <1>3, <2>2, <2>3
<1> QED
  BY <1>2, <1>3

\* A process that gets the places S, and perhaps those of the kernel, and keeps
\* what it had.
Grows(p, S, X) ==
  /\ stack' = Popped(S)
  /\ frame' = [frame EXCEPT ![p] =
                 [s \in Present(p) \union S \union X |->
                    IF s \in S THEN TopFor(S, s)
                    ELSE IF s \in X THEN KTable[s[2]] ELSE frame[p][s]]]
  /\ UNCHANGED <<lost, halted>>

\* An allocation keeps every frame to one use.
LEMMA Grown ==
  ASSUME FInv,
         NEW p \in Procs, NEW S \in SUBSET Places, NEW X \in SUBSET Shared,
         S \intersect (Present(p) \union Shared) = {},
         X \intersect Present(p) = {},
         X = Shared \/ Present(p) # {},
         Available(S), Grows(p, S, X)
  PROVE  FrameExclusive' /\ KernelTablesKept' /\ FramesAccounted' /\ KernelNotLost'
PROOF
<1> USE DEF FInv
<1> DEFINE D == Present(p) \union S \union X
           U == Popped(S)
<1>1. /\ U \in Seq(Frames) /\ Len(U) > 0 /\ DOMAIN U \subseteq DOMAIN stack
      /\ \A i \in DOMAIN U : U[i] = stack[i]
      /\ \A s \in S : \E i \in DOMAIN stack \ DOMAIN U : TopFor(S, s) = stack[i]
      /\ \A s, t \in S : TopFor(S, s) = TopFor(S, t) => s = t
      /\ \A i \in DOMAIN stack \ DOMAIN U : \E s \in S : TopFor(S, s) = stack[i]
  BY Allocation
<1>2. stack' = U /\ lost' = lost
  BY DEF Grows
<1> HIDE DEF U
<1>3. /\ DOMAIN frame'[p] = D
      /\ \A s \in S : frame'[p][s] = TopFor(S, s)
      /\ \A s \in X : frame'[p][s] = KTable[s[2]]
      /\ \A s \in Present(p) : frame'[p][s] = frame[p][s]
  BY DEF Grows, TypeOK
<1>4. \A q \in Procs \ {p} : frame'[q] = frame[q]
  BY DEF Grows, TypeOK
<1>5. \A q \in Procs : Present(q)' = DOMAIN frame'[q]
  BY DEF Present
<1>6. \A i \in DOMAIN stack : stack[i] \notin KernelUsed
  BY DEF KernelTablesKept
<1>7. \A q \in Procs : \A s \in Present(q) \intersect Shared : frame[q][s] = KTable[s[2]]
  BY KernelPlaces
\* What a place of a process is afterwards: new, the kernel's, or what it was.
<1>8. \A q \in Procs : \A s \in DOMAIN frame'[q] :
        \/ q = p /\ s \in S /\ s \notin Shared /\ frame'[q][s] = TopFor(S, s)
        \/ s \in Shared /\ frame'[q][s] = KTable[s[2]]
        \/ s \in Present(q) \ Shared /\ frame'[q][s] = frame[q][s]
  <2> SUFFICES ASSUME NEW q \in Procs, NEW s \in DOMAIN frame'[q]
               PROVE  \/ q = p /\ s \in S /\ s \notin Shared /\ frame'[q][s] = TopFor(S, s)
                      \/ s \in Shared /\ frame'[q][s] = KTable[s[2]]
                      \/ s \in Present(q) \ Shared /\ frame'[q][s] = frame[q][s]
    OBVIOUS
  <2>1. CASE q # p
    BY <1>4, <1>7, <2>1 DEF Present
  <2>2. CASE q = p /\ s \in S
    BY <1>3, <2>2
  <2>3. CASE q = p /\ s \in X
    BY <1>3, <2>3
  <2>4. CASE q = p /\ s \in Present(p)
    BY <1>3, <1>7, <2>4
  <2> QED
    BY <1>3, <2>1, <2>2, <2>3, <2>4
<1> DEFINE New(s) == TopFor(S, s)
<1>9. \A s \in S : /\ New(s) \notin KernelUsed
                   /\ \A i \in DOMAIN U : New(s) # U[i]
                   /\ New(s) \notin lost
                   /\ \A q \in Procs : \A t \in Present(q) \ Shared : frame[q][t] # New(s)
  <2> SUFFICES ASSUME NEW s \in S
               PROVE  /\ New(s) \notin KernelUsed
                      /\ \A i \in DOMAIN U : New(s) # U[i]
                      /\ New(s) \notin lost
                      /\ \A q \in Procs : \A t \in Present(q) \ Shared : frame[q][t] # New(s)
    OBVIOUS
  <2>1. PICK i \in DOMAIN stack \ DOMAIN U : New(s) = stack[i]
    BY <1>1
  <2>2. \A j \in DOMAIN U : stack[j] # stack[i]
    BY <1>1, <2>1 DEF FrameExclusive
  <2> QED
    BY <1>1, <1>6, <2>1, <2>2 DEF FrameExclusive, FramesAccounted
<1>10. FrameExclusive'
  <2>1. \A i, j \in DOMAIN U : U[i] = U[j] => i = j
    BY <1>1 DEF FrameExclusive
  <2>2. ASSUME NEW q \in Procs, NEW s \in DOMAIN frame'[q] \ Shared, NEW i \in DOMAIN U
        PROVE  frame'[q][s] # U[i]
    <3>1. CASE q = p /\ s \in S /\ frame'[q][s] = TopFor(S, s)
      BY <1>9, <3>1
    <3>2. CASE s \in Present(q) \ Shared /\ frame'[q][s] = frame[q][s]
      BY <1>1, <3>2 DEF FrameExclusive
    <3> QED
      BY <1>8, <3>1, <3>2
  <2>3. ASSUME NEW q \in Procs, NEW r \in Procs,
               NEW s \in DOMAIN frame'[q] \ Shared, NEW t \in DOMAIN frame'[r],
               frame'[q][s] = frame'[r][t]
        PROVE  q = r /\ s = t
    <3>1. CASE q = p /\ s \in S /\ frame'[q][s] = TopFor(S, s)
      <4>1. ~ (t \in Shared /\ frame'[r][t] = KTable[t[2]])
        BY <1>9, <2>3, <3>1, SharedFrames
      <4>2. ~ (t \in Present(r) \ Shared /\ frame'[r][t] = frame[r][t])
        BY <1>9, <2>3, <3>1
      <4>3. r = p /\ t \in S /\ frame'[r][t] = TopFor(S, t)
        BY <1>8, <4>1, <4>2
      <4> QED
        BY <1>1, <2>3, <3>1, <4>3
    <3>2. CASE s \in Present(q) \ Shared /\ frame'[q][s] = frame[q][s]
      <4>1. CASE r = p /\ t \in S /\ frame'[r][t] = TopFor(S, t)
        BY <1>9, <2>3, <3>2, <4>1
      <4>2. CASE t \in Present(r) \ Shared /\ frame'[r][t] = frame[r][t]
        <5>1. frame[q][s] = frame[r][t]
          BY <2>3, <3>2, <4>2
        <5> QED
          BY <3>2, <4>2, <5>1 DEF FrameExclusive
      <4>3. CASE t \in Shared /\ frame'[r][t] = KTable[t[2]]
        <5>1. frame[q][s] \notin KernelUsed
          BY <3>2, KernelPlaces
        <5> QED
          BY <2>3, <3>2, <4>3, <5>1, SharedFrames
      <4> QED
        BY <1>8, <4>1, <4>2, <4>3
    <3> QED
      BY <1>8, <3>1, <3>2
  <2> QED
    BY <1>2, <1>5, <2>1, <2>2, <2>3 DEF FrameExclusive
<1>11. KernelTablesKept'
  <2>1. \A i \in DOMAIN U : U[i] \notin KernelUsed
    BY <1>1, <1>6
  <2>2. ASSUME NEW q \in Procs, DOMAIN frame'[q] # {}, NEW d \in KernelDirs
        PROVE  <<1, d>> \in DOMAIN frame'[q] /\ frame'[q][<<1, d>>] = KTable[d]
    <3>1. <<1, d>> \in Shared /\ <<1, d>>[2] = d
      BY DEF Shared
    <3>2. CASE q = p /\ X = Shared
      BY <1>3, <3>1, <3>2
    <3>3. CASE q = p /\ Present(p) # {}
      BY <1>3, <3>3 DEF KernelTablesKept
    <3>4. CASE q # p
      BY <1>4, <2>2, <3>4 DEF KernelTablesKept, Present
    <3> QED
      BY <3>2, <3>3, <3>4
  <2> QED
    BY <1>2, <1>5, <2>1, <2>2 DEF KernelTablesKept
<1>12. FramesAccounted'
  <2>1. ASSUME NEW i \in DOMAIN Boot
        PROVE  \/ Boot[i] \in lost
               \/ \E j \in DOMAIN U : U[j] = Boot[i]
               \/ \E q \in Procs : \E s \in DOMAIN frame'[q] : frame'[q][s] = Boot[i]
    <3>1. CASE Boot[i] \in lost
      BY <3>1
    <3>2. CASE \E j \in DOMAIN stack : stack[j] = Boot[i]
      <4>1. PICK j \in DOMAIN stack : stack[j] = Boot[i]
        BY <3>2
      <4>2. CASE j \in DOMAIN U
        BY <1>1, <4>1, <4>2
      <4>3. CASE j \notin DOMAIN U
        <5>1. PICK s \in S : TopFor(S, s) = stack[j]
          BY <1>1, <4>3
        <5>2. s \in DOMAIN frame'[p] /\ frame'[p][s] = Boot[i]
          BY <1>3, <4>1, <5>1
        <5> QED
          BY <5>2
      <4> QED
        BY <4>2, <4>3
    <3>3. CASE \E q \in Procs : \E s \in Present(q) : frame[q][s] = Boot[i]
      <4>0. PICK q \in Procs : \E s \in Present(q) : frame[q][s] = Boot[i]
        BY <3>3
      <4>1. PICK s \in Present(q) : frame[q][s] = Boot[i]
        BY <4>0
      <4>2. s \in DOMAIN frame'[q] /\ frame'[q][s] = frame[q][s]
        BY <1>3, <1>4 DEF Present
      <4> QED
        BY <4>1, <4>2
    <3> QED
      BY <3>1, <3>2, <3>3 DEF FramesAccounted
  <2>2. \A j \in DOMAIN U : U[j] \notin lost
    BY <1>1 DEF FramesAccounted
  <2>3. ASSUME NEW q \in Procs, NEW s \in DOMAIN frame'[q]
        PROVE  frame'[q][s] \notin lost
    <3>1. CASE q = p /\ s \in S /\ frame'[q][s] = TopFor(S, s)
      BY <1>9, <3>1
    <3>2. CASE s \in Shared /\ frame'[q][s] = KTable[s[2]]
      BY <3>2, SharedFrames DEF KernelNotLost
    <3>3. CASE s \in Present(q) \ Shared /\ frame'[q][s] = frame[q][s]
      BY <3>3 DEF FramesAccounted
    <3> QED
      BY <1>8, <3>1, <3>2, <3>3
  <2> QED
    BY <1>2, <1>5, <2>1, <2>2, <2>3 DEF FramesAccounted
<1>13. KernelNotLost'
  BY <1>2 DEF KernelNotLost
<1> QED
  BY <1>10, <1>11, <1>12, <1>13

-----------------------------------------------------------------------------
LEMMA Halts ==
  ASSUME FInv, Panic
  PROVE  FInv'
PROOF
<1>1. stack' = stack /\ frame' = frame /\ lost' = lost /\ halted' = TRUE
  BY DEF Panic
<1> QED
  BY <1>1 DEF FInv, TypeOK, FrameExclusive, KernelTablesKept, FramesAccounted,
              KernelNotLost, Present

\* A new process: its tables, its stack and the kernel's tables.
LEMMA CreateGrows ==
  ASSUME FInv, NEW p \in Procs, Present(p) = {}, Available(NewPlaces), Create(p)
  PROVE  Grows(p, NewPlaces, Shared)
PROOF
<1>2. /\ frame' = [frame EXCEPT ![p] = [s \in NewPlaces \union Shared |->
                      IF s \in Shared THEN KTable[s[2]] ELSE TopFor(NewPlaces, s)]]
      /\ stack' = Popped(NewPlaces) /\ UNCHANGED <<lost, halted>>
  BY DEF Create
<1>3. [s \in NewPlaces \union Shared |->
         IF s \in Shared THEN KTable[s[2]] ELSE TopFor(NewPlaces, s)]
        = [s \in Present(p) \union NewPlaces \union Shared |->
             IF s \in NewPlaces THEN TopFor(NewPlaces, s)
             ELSE IF s \in Shared THEN KTable[s[2]] ELSE frame[p][s]]
  BY NewPlacesType
<1> QED
  BY <1>2, <1>3 DEF Grows

\* What fills the tables of a process fits the type.
LEMMA GrownType ==
  ASSUME FInv,
         NEW p \in Procs, NEW S \in SUBSET Places, NEW X \in SUBSET Shared,
         S \intersect (Present(p) \union Shared) = {},
         X \intersect Present(p) = {},
         Available(S), Grows(p, S, X),
         Upper \subseteq Present(p) \union S,
         \A d \in Dirs, e \in 0 .. Entries - 1 :
           <<0, d, e>> \in S => <<1, d>> \in Present(p) \union S
  PROVE  TypeOK'
PROOF
<1> USE DEF FInv, Upper
<1> DEFINE D == Present(p) \union S \union X
<1>1. Popped(S) \in Seq(Frames) /\ Len(Popped(S)) > 0
  BY Allocation
<1>2. /\ DOMAIN frame' = Procs /\ DOMAIN frame'[p] = D
      /\ \A s \in S : frame'[p][s] = TopFor(S, s)
      /\ \A s \in X : frame'[p][s] = KTable[s[2]]
      /\ \A s \in Present(p) : frame'[p][s] = frame[p][s]
  BY DEF Grows, TypeOK
<1>3. \A q \in Procs \ {p} : frame'[q] = frame[q]
  BY DEF Grows, TypeOK
<1>4. \A s \in S : TopFor(S, s) \in Frames
  <2>1. \A i \in DOMAIN stack : stack[i] \in Frames
    BY DEF TypeOK
  <2> QED
    BY <2>1, Allocation
<1>5. D \subseteq Places
  BY NewPlacesType DEF TypeOK
<1>6. \A s \in D : frame'[p][s] \in Frames
  BY <1>2, <1>4, SharedFrames DEF TypeOK
<1>7. \A d \in Dirs, e \in 0 .. Entries - 1 : <<0, d, e>> \in D => <<1, d>> \in D
  <2> SUFFICES ASSUME NEW d \in Dirs, NEW e \in 0 .. Entries - 1, <<0, d, e>> \in D
               PROVE  <<1, d>> \in D
    OBVIOUS
  <2>1. <<0, d, e>> \notin X
    BY DEF Shared
  <2> QED
    BY <2>1 DEF TypeOK
<1>8. ASSUME NEW q \in Procs
      PROVE  /\ DOMAIN frame'[q] \subseteq Places
             /\ \A s \in DOMAIN frame'[q] : frame'[q][s] \in Frames
             /\ DOMAIN frame'[q] # {} => {<<4>>, <<3>>, <<2>>} \subseteq DOMAIN frame'[q]
             /\ \A d \in Dirs, e \in 0 .. Entries - 1 :
                  <<0, d, e>> \in DOMAIN frame'[q] => <<1, d>> \in DOMAIN frame'[q]
  <2>1. CASE q = p
    BY <1>2, <1>5, <1>6, <1>7, <2>1
  <2>2. CASE q # p
    BY <1>3, <2>2 DEF TypeOK, Present
  <2> QED
    BY <2>1, <2>2
<1>9. stack' = Popped(S) /\ lost' = lost /\ halted' = halted
  BY DEF Grows
<1> QED
  BY <1>1, <1>2, <1>8, <1>9 DEF TypeOK, Present

LEMMA CreateKeeps ==
  ASSUME FInv, NEW p \in Procs, Create(p)
  PROVE  FInv'
PROOF
<1>1. CASE Available(NewPlaces)
  <2>1. Present(p) = {} /\ Grows(p, NewPlaces, Shared)
    BY <1>1, CreateGrows DEF Create
  <2>2. NewPlaces \in SUBSET Places /\ NewPlaces \intersect Shared = {}
    BY NewPlacesType
  <2>3. FrameExclusive' /\ KernelTablesKept' /\ FramesAccounted' /\ KernelNotLost'
    BY <1>1, <2>1, <2>2, Grown
  <2>4. {<<4>>, <<3>>, <<2>>} \subseteq NewPlaces
    BY DEF NewPlaces
  <2>5. \A d \in Dirs, e \in 0 .. Entries - 1 : <<0, d, e>> \in NewPlaces => <<1, d>> \in NewPlaces
    <3> SUFFICES ASSUME NEW d \in Dirs, NEW e \in 0 .. Entries - 1, <<0, d, e>> \in NewPlaces
                 PROVE  <<1, d>> \in NewPlaces
      OBVIOUS
    <3>1. <<0, d, e>> \in {<<0, c, f>> : c \in StackDirs, f \in 0 .. Entries - 1}
      BY DEF NewPlaces
    <3> QED
      BY <3>1 DEF NewPlaces
  <2>6. TypeOK'
    BY <1>1, <2>1, <2>2, <2>4, <2>5, GrownType DEF Upper
  <2> QED
    BY <2>3, <2>6 DEF FInv
<1>2. CASE ~ Available(NewPlaces)
  BY <1>2, Halts DEF Create
<1> QED
  BY <1>1, <1>2

\* A page of the heap, with the table above it when it is the first.
LEMMA FaultKeeps ==
  ASSUME FInv, NEW p \in Procs, NEW e \in 0 .. Entries - 1, Fault(p, e)
  PROVE  FInv'
PROOF
<1> DEFINE S == {<<1, HeapDir>>, <<0, HeapDir, e>>} \ Present(p)
<1>1. CASE Available(S)
  <2>1. Present(p) # {} /\ Grows(p, S, {})
    <3>1. /\ frame' = [frame EXCEPT ![p] = [s \in Present(p) \union S |->
                          IF s \in S THEN TopFor(S, s) ELSE frame[p][s]]]
          /\ stack' = Popped(S) /\ UNCHANGED <<lost, halted>> /\ Present(p) # {}
      BY <1>1 DEF Fault
    <3>2. [s \in Present(p) \union S |-> IF s \in S THEN TopFor(S, s) ELSE frame[p][s]]
            = [s \in Present(p) \union S \union {} |->
                 IF s \in S THEN TopFor(S, s)
                 ELSE IF s \in {} THEN KTable[s[2]] ELSE frame[p][s]]
      OBVIOUS
    <3> QED
      BY <3>1, <3>2 DEF Grows
  <2>2. S \in SUBSET Places
    BY DEF Places, Tables, Pages, Dirs
  <2>3. S \intersect Shared = {}
    BY PageFramesAssumption DEF Shared, Dirs
  <2>4. FrameExclusive' /\ KernelTablesKept' /\ FramesAccounted' /\ KernelNotLost'
    BY <1>1, <2>1, <2>2, <2>3, Grown
  <2>5. {<<4>>, <<3>>, <<2>>} \subseteq Present(p)
    BY <2>1 DEF FInv, TypeOK
  <2>6. \A d \in Dirs, f \in 0 .. Entries - 1 : <<0, d, f>> \in S => <<1, d>> \in Present(p) \union S
    OBVIOUS
  <2>7. TypeOK'
    BY <1>1, <2>1, <2>2, <2>3, <2>5, <2>6, GrownType DEF Upper
  <2> QED
    BY <2>4, <2>7 DEF FInv
<1>2. CASE ~ Available(S)
  <2>1. Panic
    BY <1>2 DEF Fault
  <2> QED
    BY <2>1, Halts
<1> QED
  BY <1>1, <1>2

-----------------------------------------------------------------------------
\* The end of a process: its frames, the kernel's and the last pages excepted,
\* go back to the stack, each once.
LEMMA DestroyKeeps ==
  ASSUME FInv, NEW p \in Procs, Destroy(p)
  PROVE  FInv'
PROOF
<1> USE DEF FInv
<1> DEFINE F == Freed(p)
           T == [i \in DOMAIN Visit(F) |-> frame[p][Visit(F)[i]]]
           L == {frame[p][s] : s \in Present(p) \ (Shared \union F)}
           m == Len(stack)
           n == Len(Visit(F))
<1>1. F \subseteq Present(p) \ Shared /\ Present(p) \subseteq Places
  BY DEF Freed, TypeOK
<1>2. /\ Visit(F) \in Seq(F)
      /\ \A s \in F : Turn(F, s) \in DOMAIN Visit(F) /\ Visit(F)[Turn(F, s)] = s
      /\ \A i \in DOMAIN Visit(F) : Visit(F)[i] \in F /\ Turn(F, Visit(F)[i]) = i
  BY <1>1, TurnUnique
<1>3. /\ stack' = stack \o T
      /\ frame' = [frame EXCEPT ![p] = NoTables]
      /\ lost' = lost \union L /\ halted' = halted
  BY DEF Destroy
<1> HIDE DEF F
<1>4. n \in Nat /\ m \in Nat /\ DOMAIN stack = 1 .. m /\ DOMAIN Visit(F) = 1 .. n /\ m > 0
  BY <1>2 DEF TypeOK
<1>5. T \in Seq(Frames) /\ Len(T) = n
  <2>1. \A i \in 1 .. n : T[i] \in Frames
    BY <1>1, <1>2, <1>4 DEF TypeOK
  <2> QED
    BY <1>4, <2>1
<1>6. /\ stack \o T \in Seq(Frames) /\ Len(stack \o T) = m + n
      /\ \A i \in 1 .. m + n : (stack \o T)[i] = IF i <= m THEN stack[i] ELSE T[i - m]
  BY <1>4, <1>5, ConcatProperties DEF TypeOK
<1>7. DOMAIN stack' = 1 .. m + n
  BY <1>3, <1>6
\* An entry of the stack was there, or is the frame of a place that is freed.
<1>8. \A i \in DOMAIN stack' :
        \/ i \in DOMAIN stack /\ stack'[i] = stack[i]
        \/ /\ i - m \in DOMAIN Visit(F) /\ i \notin DOMAIN stack
           /\ Visit(F)[i - m] \in F /\ stack'[i] = frame[p][Visit(F)[i - m]]
  <2> SUFFICES ASSUME NEW i \in 1 .. m + n
               PROVE  \/ i \in DOMAIN stack /\ stack'[i] = stack[i]
                      \/ /\ i - m \in DOMAIN Visit(F) /\ i \notin DOMAIN stack
                         /\ Visit(F)[i - m] \in F /\ stack'[i] = frame[p][Visit(F)[i - m]]
    BY <1>7
  <2>1. CASE i <= m
    BY <1>3, <1>4, <1>6, <2>1
  <2>2. CASE ~(i <= m)
    <3>1. i - m \in 1 .. n /\ i \notin 1 .. m
      BY <1>4, <2>2
    <3>2. stack'[i] = T[i - m]
      BY <1>3, <1>6, <2>2
    <3> QED
      BY <1>2, <1>4, <3>1, <3>2
  <2> QED
    BY <2>1, <2>2
<1>9. \A i \in DOMAIN stack : i \in DOMAIN stack' /\ stack'[i] = stack[i]
  BY <1>3, <1>4, <1>6, <1>7
<1>10. \A s \in F : \E i \in DOMAIN stack' : stack'[i] = frame[p][s]
  <2> SUFFICES ASSUME NEW s \in F PROVE \E i \in DOMAIN stack' : stack'[i] = frame[p][s]
    OBVIOUS
  <2> DEFINE k == Turn(F, s)
  <2>1. k \in 1 .. n /\ Visit(F)[k] = s
    BY <1>2, <1>4
  <2> HIDE DEF k, T, m, n
  <2>2. m + k \in 1 .. m + n
    BY <1>4, <2>1 DEF m, n
  <2>3. stack'[m + k] = T[k]
    <3> DEFINE i == m + k
    <3>1. i \in 1 .. m + n /\ ~(i <= m) /\ i - m = k
      BY <1>4, <2>1 DEF m, n
    <3> HIDE DEF i
    <3>2. stack'[i] = T[k]
      BY <1>3, <1>6, <3>1
    <3> QED
      BY <3>2 DEF i
  <2>4. T[k] = frame[p][s]
    BY <1>4, <2>1 DEF T
  <2> QED
    BY <1>7, <2>2, <2>3, <2>4
<1>11. Present(p)' = {} /\ DOMAIN frame' = Procs
  BY <1>3 DEF Present, NoTables, TypeOK
<1>12. \A q \in Procs \ {p} : frame'[q] = frame[q] /\ Present(q)' = Present(q)
  BY <1>3 DEF Present, TypeOK
<1> HIDE DEF T, m, n, L
<1>13. TypeOK'
  <2>1. stack' \in Seq(Frames) /\ Len(stack') > 0
    BY <1>3, <1>4, <1>6
  <2>2. lost' \subseteq Frames
    BY <1>1, <1>3 DEF TypeOK, L
  <2>3. ASSUME NEW q \in Procs
        PROVE  /\ Present(q)' \subseteq Places
               /\ \A s \in Present(q)' : frame'[q][s] \in Frames
               /\ Present(q)' # {} => {<<4>>, <<3>>, <<2>>} \subseteq Present(q)'
               /\ \A d \in Dirs, e \in 0 .. Entries - 1 :
                    <<0, d, e>> \in Present(q)' => <<1, d>> \in Present(q)'
    BY <1>11, <1>12 DEF TypeOK
  <2> QED
    BY <1>3, <1>11, <2>1, <2>2, <2>3 DEF TypeOK
<1>14. FrameExclusive'
  <2>1. ASSUME NEW i \in DOMAIN stack', NEW j \in DOMAIN stack', stack'[i] = stack'[j]
        PROVE  i = j
    <3>1. CASE i \in DOMAIN stack /\ j \in DOMAIN stack
      BY <1>9, <2>1, <3>1 DEF FrameExclusive
    <3>2. CASE i \in DOMAIN stack /\ j \notin DOMAIN stack
      BY <1>1, <1>8, <1>9, <2>1, <3>2 DEF FrameExclusive
    <3>3. CASE i \notin DOMAIN stack /\ j \in DOMAIN stack
      BY <1>1, <1>8, <1>9, <2>1, <3>3 DEF FrameExclusive
    <3>4. CASE i \notin DOMAIN stack /\ j \notin DOMAIN stack
      <4>1. /\ i - m \in DOMAIN Visit(F) /\ Visit(F)[i - m] \in F
            /\ j - m \in DOMAIN Visit(F) /\ Visit(F)[j - m] \in F
            /\ frame[p][Visit(F)[i - m]] = frame[p][Visit(F)[j - m]]
        BY <1>8, <2>1, <3>4
      <4>2. Visit(F)[i - m] = Visit(F)[j - m]
        BY <1>1, <4>1 DEF FrameExclusive
      <4>3. i - m = j - m
        BY <1>2, <4>1, <4>2
      <4> QED
        BY <1>4, <1>7, <4>3
    <3> QED
      BY <3>1, <3>2, <3>3, <3>4
  <2>2. ASSUME NEW q \in Procs, NEW s \in Present(q)' \ Shared, NEW i \in DOMAIN stack'
        PROVE  frame'[q][s] # stack'[i]
    <3>1. q # p /\ s \in Present(q) \ Shared /\ frame'[q][s] = frame[q][s]
      BY <1>11, <1>12, <2>2
    <3> QED
      BY <1>1, <1>8, <3>1 DEF FrameExclusive
  <2>3. ASSUME NEW q \in Procs, NEW r \in Procs, NEW s \in Present(q)' \ Shared,
               NEW t \in Present(r)', frame'[q][s] = frame'[r][t]
        PROVE  q = r /\ s = t
    BY <1>11, <1>12, <2>3 DEF FrameExclusive
  <2> QED
    BY <2>1, <2>2, <2>3 DEF FrameExclusive
<1>15. \A s \in Present(p) \ Shared : frame[p][s] \notin KernelUsed
  BY KernelPlaces
<1>16. KernelTablesKept'
  <2>1. \A i \in DOMAIN stack' : stack'[i] \notin KernelUsed
    BY <1>1, <1>8, <1>15 DEF KernelTablesKept
  <2> QED
    BY <1>11, <1>12, <2>1 DEF KernelTablesKept
<1>17. KernelNotLost'
  BY <1>3, <1>15 DEF KernelNotLost, L
<1>18. FramesAccounted'
  <2>1. ASSUME NEW i \in DOMAIN Boot
        PROVE  \/ Boot[i] \in lost'
               \/ \E j \in DOMAIN stack' : stack'[j] = Boot[i]
               \/ \E q \in Procs : \E s \in Present(q)' : frame'[q][s] = Boot[i]
    <3>1. CASE Boot[i] \in lost
      BY <1>3, <3>1
    <3>2. CASE \E j \in DOMAIN stack : stack[j] = Boot[i]
      BY <1>9, <3>2
    <3>3. ASSUME NEW s \in Present(p), frame[p][s] = Boot[i]
          PROVE  Boot[i] \in lost' \/ \E j \in DOMAIN stack' : stack'[j] = Boot[i]
      <4>1. CASE s \in Shared
        <5>1. Boot[i] \in KernelUsed
          BY <3>3, <4>1, KernelPlaces, SharedFrames
        <5>2. Boot[i] \notin KernelUsed
          BY PageFramesAssumption
        <5> QED
          BY <5>1, <5>2
      <4>2. CASE s \in F
        BY <1>10, <3>3, <4>2
      <4>3. CASE s \notin Shared \union F
        BY <1>3, <3>3, <4>3 DEF L
      <4> QED
        BY <4>1, <4>2, <4>3
    <3>4. ASSUME NEW q \in Procs \ {p}, NEW s \in Present(q), frame[q][s] = Boot[i]
          PROVE  s \in Present(q)' /\ frame'[q][s] = Boot[i]
      BY <1>12, <3>4
    <3> QED
      BY <3>1, <3>2, <3>3, <3>4 DEF FramesAccounted
  <2>2. \A s \in Present(p) \ (Shared \union F) : \A i \in DOMAIN stack' : stack'[i] # frame[p][s]
    <3> SUFFICES ASSUME NEW s \in Present(p) \ (Shared \union F), NEW i \in DOMAIN stack',
                        stack'[i] = frame[p][s]
                 PROVE  FALSE
      OBVIOUS
    <3>1. CASE stack'[i] = stack[i] /\ i \in DOMAIN stack
      BY <3>1 DEF FrameExclusive
    <3>2. CASE Visit(F)[i - m] \in F /\ stack'[i] = frame[p][Visit(F)[i - m]]
      <4>0. frame[p][Visit(F)[i - m]] = frame[p][s]
        BY <3>2
      <4>1. Visit(F)[i - m] = s
        BY <1>1, <3>2, <4>0 DEF FrameExclusive
      <4> QED
        BY <3>2, <4>1
    <3> QED
      BY <1>8, <3>1, <3>2
  <2>3. \A i \in DOMAIN stack' : stack'[i] \notin lost
    BY <1>1, <1>8 DEF FramesAccounted
  <2>4. \A i \in DOMAIN stack' : stack'[i] \notin lost'
    BY <1>3, <2>2, <2>3 DEF L
  <2>5. ASSUME NEW q \in Procs, NEW s \in Present(q)'
        PROVE  frame'[q][s] \notin lost'
    <3>1. q # p /\ s \in Present(q) /\ frame'[q][s] = frame[q][s]
      BY <1>11, <1>12
    <3>2. frame[q][s] \notin lost
      BY <3>1 DEF FramesAccounted
    <3>3. \A t \in Present(p) \ (Shared \union F) : frame[p][t] # frame[q][s]
      BY <3>1 DEF FrameExclusive
    <3> QED
      BY <1>3, <3>1, <3>2, <3>3 DEF L
  <2> QED
    BY <2>1, <2>4, <2>5 DEF FramesAccounted
<1> QED
  BY <1>13, <1>14, <1>16, <1>17, <1>18

-----------------------------------------------------------------------------
LEMMA FramesInit == Init => FInv
PROOF
<1> SUFFICES ASSUME Init PROVE FInv
  OBVIOUS
<1>1. stack = Boot /\ lost = {} /\ halted = FALSE /\ DOMAIN frame = Procs
  BY DEF Init
<1>2. \A p \in Procs : Present(p) = {}
  BY DEF Init, Present, NoTables
<1>3. Boot \in Seq(Frames) /\ \A i \in DOMAIN Boot : Boot[i] \notin KernelUsed
  BY PageFramesAssumption
<1>4. TypeOK
  BY <1>1, <1>2, <1>3, PageFramesAssumption DEF TypeOK
<1>5. FrameExclusive
  BY <1>1, <1>2, PageFramesAssumption DEF FrameExclusive
<1>6. KernelTablesKept /\ KernelNotLost
  BY <1>1, <1>2, <1>3 DEF KernelTablesKept, KernelNotLost
<1>7. FramesAccounted
  BY <1>1, <1>2 DEF FramesAccounted
<1> QED
  BY <1>4, <1>5, <1>6, <1>7 DEF FInv

\* The properties of the frames are inductive, together with what a run need not
\* check: the kernel's frames are never among the lost ones.
THEOREM FramesInvariant == Spec => []FInv
PROOF
<1>1. FInv /\ Next => FInv'
  <2> SUFFICES ASSUME FInv, NEW p \in Procs,
                      \/ Create(p) \/ Destroy(p)
                      \/ \E e \in 0 .. Entries - 1 : Fault(p, e)
               PROVE  FInv'
    BY DEF Next
  <2> QED
    BY CreateKeeps, DestroyKeeps, FaultKeeps
<1>2. FInv /\ UNCHANGED vars => FInv'
  BY DEF vars, FInv, TypeOK, FrameExclusive, KernelTablesKept, FramesAccounted,
         KernelNotLost, Present
<1> QED
  BY FramesInit, <1>1, <1>2, PTL DEF Spec

\* The stack of free frames never runs empty below its bottom, and the tables of
\* every process form a tree of places that point to frames.
THEOREM FramesTypeCorrect == Spec => []TypeOK
PROOF
<1>1. FInv => TypeOK
  BY DEF FInv
<1> QED
  BY FramesInvariant, <1>1, PTL

\* However processes come, grow and go, a frame has one use.
THEOREM OneUsePerFrame == Spec => []FrameExclusive
PROOF
<1>1. FInv => FrameExclusive
  BY DEF FInv
<1> QED
  BY FramesInvariant, <1>1, PTL

\* Every process has the kernel's level 1 tables, and none of them is ever free.
THEOREM KernelKeepsTables == Spec => []KernelTablesKept
PROOF
<1>1. FInv => KernelTablesKept
  BY DEF FInv
<1> QED
  BY FramesInvariant, <1>1, PTL

\* Every frame of the boot is free, in use, or among the last pages that
\* free_l1_table forgets.
THEOREM NoOtherLoss == Spec => []FramesAccounted
PROOF
<1>1. FInv => FramesAccounted
  BY DEF FInv
<1> QED
  BY FramesInvariant, <1>1, PTL

=============================================================================
