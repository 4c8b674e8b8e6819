--------------------------- MODULE FileSystemProofs ---------------------------
(***************************************************************************)
(* The files and directories of FileSystem, for any tree, any names and    *)
(* any number of tasks: the directories stay a tree, names keep what they  *)
(* name, descriptors open where they should, and the calls implement       *)
(* FileStore.  A path is walked by a recursive function, so the proof      *)
(* starts with what that function computes (WalkSteps).                    *)
(***************************************************************************)
EXTENDS FileSystem, SequenceTheorems, FiniteSetTheorems, WellFoundedInduction, TLAPS

\* A set of natural numbers that is not empty has a least element.
LEMMA Least ==
  ASSUME NEW S \in SUBSET Nat, S # {}
  PROVE  \E x \in S : Lowest(x, S)
PROOF
<1>1. IsWellFoundedOn(OpToRel(<, Nat), Nat)
  BY NatLessThanWellFounded
<1>2. PICK x \in S : \A y \in S : <<y, x>> \notin OpToRel(<, Nat)
  BY <1>1, WFMin
<1>3. \A y \in S : x <= y
  <2> SUFFICES ASSUME NEW y \in S, y < x PROVE FALSE
    OBVIOUS
  <2>1. <<y, x>> \in Nat \X Nat /\ <<y, x>>[1] < <<y, x>>[2]
    OBVIOUS
  <2> QED
    BY <1>2, <2>1 DEF OpToRel
<1> QED
  BY <1>3 DEF Lowest

\* What holds for 0, and for n + 1 when it holds for n, holds as far as m.
LEMMA Induction ==
  ASSUME NEW m \in Nat, NEW S, 0 \in S, \A n \in 0 .. m : n \in S /\ n < m => n + 1 \in S
  PROVE  0 .. m \subseteq S
PROOF
<1> SUFFICES ASSUME (0 .. m) \ S # {} PROVE FALSE
  OBVIOUS
<1>1. PICK x \in (0 .. m) \ S : Lowest(x, (0 .. m) \ S)
  BY Least
<1>2. x - 1 \in 0 .. m /\ x - 1 < m /\ x - 1 + 1 = x /\ x - 1 < x
  OBVIOUS
<1>3. x - 1 \in S
  <2> SUFFICES ASSUME x - 1 \notin S PROVE FALSE
    OBVIOUS
  <2>1. x <= x - 1
    BY <1>1, <1>2 DEF Lowest
  <2> QED
    BY <2>1
<1> QED
  BY <1>2, <1>3

-----------------------------------------------------------------------------
\* f leads along the first n components of path.
Leads(f, path, n) ==
  f = [k \in 0 .. n |->
         IF k = 0 THEN Root
         ELSE LET d == f[k - 1] IN IF d = None THEN None ELSE Child(d, path[k])]

Step(d, n) == IF d = None THEN None ELSE Child(d, n)

LEMMA LeadsSteps ==
  ASSUME NEW path, NEW n \in Nat, NEW f
  PROVE  Leads(f, path, n) <=>
           /\ f = [k \in 0 .. n |-> f[k]]
           /\ f[0] = Root
           /\ \A k \in 0 .. n : k < n => f[k + 1] = Step(f[k], path[k + 1])
PROOF
<1>1. ASSUME Leads(f, path, n)
      PROVE  /\ f = [k \in 0 .. n |-> f[k]]
             /\ f[0] = Root
             /\ \A k \in 0 .. n : k < n => f[k + 1] = Step(f[k], path[k + 1])
  <2>1. DOMAIN f = 0 .. n /\ f = [k \in 0 .. n |-> f[k]]
    BY <1>1 DEF Leads
  <2>2. \A k \in 0 .. n : f[k] = IF k = 0 THEN Root ELSE Step(f[k - 1], path[k])
    BY <1>1 DEF Leads, Step
  <2>3. ASSUME NEW k \in 0 .. n, k < n PROVE f[k + 1] = Step(f[k], path[k + 1])
    <3>1. k + 1 \in 0 .. n /\ k + 1 # 0 /\ k + 1 - 1 = k
      BY <2>3
    <3> QED
      BY <2>2, <3>1
  <2>4. f[0] = Root
    BY <2>2
  <2> QED
    BY <2>1, <2>3, <2>4
<1>2. ASSUME f = [k \in 0 .. n |-> f[k]], f[0] = Root,
             \A k \in 0 .. n : k < n => f[k + 1] = Step(f[k], path[k + 1])
      PROVE  Leads(f, path, n)
  <2>1. ASSUME NEW k \in 0 .. n
        PROVE  f[k] = IF k = 0 THEN Root ELSE Step(f[k - 1], path[k])
    <3>1. CASE k = 0
      BY <1>2, <3>1
    <3>2. CASE k # 0
      <4>1. k - 1 \in 0 .. n /\ k - 1 < n /\ k - 1 + 1 = k
        BY <3>2
      <4>2. f[k - 1 + 1] = Step(f[k - 1], path[k - 1 + 1])
        BY <1>2, <4>1
      <4> QED
        BY <3>2, <4>1, <4>2
    <3> QED
      BY <3>1, <3>2
  <2>2. f = [k \in 0 .. n |-> IF k = 0 THEN Root ELSE Step(f[k - 1], path[k])]
    BY <1>2, <2>1
  <2> QED
    BY <2>2 DEF Leads, Step
<1> QED
  BY <1>1, <1>2

LEMMA LeadsOneWay ==
  ASSUME NEW path, NEW m \in Nat, NEW n \in Nat, n <= m, NEW f, NEW g,
         Leads(f, path, n), Leads(g, path, m)
  PROVE  \A k \in 0 .. n : f[k] = g[k]
PROOF
<1> DEFINE S == {k \in 0 .. n : f[k] = g[k]}
<1>1. 0 \in S
  <2>1. f[0] = Root /\ g[0] = Root
    BY LeadsSteps
  <2> QED
    BY <2>1
<1>2. ASSUME NEW k \in 0 .. n, k \in S, k < n PROVE k + 1 \in S
  <2>1. k \in 0 .. m /\ k < m /\ k + 1 \in 0 .. n
    BY <1>2
  <2>2. f[k + 1] = Step(f[k], path[k + 1]) /\ g[k + 1] = Step(g[k], path[k + 1])
    BY <1>2, <2>1, LeadsSteps
  <2> QED
    BY <1>2, <2>1, <2>2
<1> HIDE DEF S
<1>3. 0 .. n \subseteq S
  BY <1>1, <1>2, Induction
<1> QED
  BY <1>3 DEF S

LEMMA LeadsExists ==
  ASSUME NEW path, NEW m \in Nat
  PROVE  \E f : Leads(f, path, m)
PROOF
<1> DEFINE S == {n \in 0 .. m : \E f : Leads(f, path, n)}
<1>1. 0 \in S
  <2> DEFINE f == [k \in 0 .. 0 |-> Root]
  <2>1. /\ f = [k \in 0 .. 0 |-> f[k]] /\ f[0] = Root
        /\ \A k \in 0 .. 0 : k < 0 => f[k + 1] = Step(f[k], path[k + 1])
    OBVIOUS
  <2> HIDE DEF f
  <2>2. Leads(f, path, 0)
    BY <2>1, LeadsSteps
  <2> QED
    BY <2>2
<1>2. ASSUME NEW n \in 0 .. m, n \in S, n < m PROVE n + 1 \in S
  <2>1. PICK f : Leads(f, path, n)
    BY <1>2
  <2> DEFINE g == [k \in 0 .. n + 1 |-> IF k = n + 1 THEN Step(f[n], path[n + 1]) ELSE f[k]]
  <2>2. /\ f[0] = Root
        /\ \A k \in 0 .. n : k < n => f[k + 1] = Step(f[k], path[k + 1])
    BY <2>1, LeadsSteps
  <2>3. n + 1 \in Nat /\ n + 1 \in 0 .. m
    BY <1>2
  <2>4. g = [k \in 0 .. n + 1 |-> g[k]]
    OBVIOUS
  <2>5. g[0] = Root
    BY <2>2
  <2>6. ASSUME NEW k \in 0 .. n + 1, k < n + 1
        PROVE  g[k + 1] = Step(g[k], path[k + 1])
    <3>1. k + 1 \in 0 .. n + 1 /\ k \in 0 .. n /\ k # n + 1 /\ (k + 1 = n + 1 <=> k = n)
      BY <2>6
    <3>2. g[k] = f[k]
      BY <3>1
    <3>3. CASE k = n
      BY <3>1, <3>2, <3>3
    <3>4. CASE k # n
      <4>1. k < n /\ g[k + 1] = f[k + 1]
        BY <3>1, <3>4
      <4> QED
        BY <2>2, <3>1, <3>2, <4>1
    <3> QED
      BY <3>3, <3>4
  <2> HIDE DEF g
  <2>7. Leads(g, path, n + 1)
    BY <2>3, <2>4, <2>5, <2>6, LeadsSteps
  <2> QED
    BY <2>3, <2>7
<1> HIDE DEF S
<1>3. 0 .. m \subseteq S
  BY <1>1, <1>2, Induction
<1> QED
  BY <1>3 DEF S

\* fs_traverse takes one component after the other.
WalkSteps ==
  \A path \in Seq(Names) :
    /\ Walk(path, 0) = Root
    /\ \A n \in 0 .. Len(path) :
         n < Len(path) => Walk(path, n + 1) = Step(Walk(path, n), path[n + 1])

LEMMA WalkTakesSteps == WalkSteps
PROOF
<1> SUFFICES ASSUME NEW path \in Seq(Names)
             PROVE  /\ Walk(path, 0) = Root
                    /\ \A n \in 0 .. Len(path) :
                         n < Len(path) => Walk(path, n + 1) = Step(Walk(path, n), path[n + 1])
  BY DEF WalkSteps
<1>1. \A n \in Nat : \E f : Leads(f, path, n) /\ Walk(path, n) = f[n]
  <2> SUFFICES ASSUME NEW n \in Nat PROVE \E f : Leads(f, path, n) /\ Walk(path, n) = f[n]
    OBVIOUS
  <2> DEFINE f == CHOOSE g : Leads(g, path, n)
  <2>1. Leads(f, path, n)
    BY LeadsExists
  <2>2. Walk(path, n) = f[n]
    BY DEF Walk, Leads
  <2> QED
    BY <2>1, <2>2
<1>2. Walk(path, 0) = Root
  BY <1>1, LeadsSteps
<1>3. ASSUME NEW n \in 0 .. Len(path), n < Len(path)
      PROVE  Walk(path, n + 1) = Step(Walk(path, n), path[n + 1])
  <2>1. n \in Nat /\ n + 1 \in Nat /\ n <= n + 1 /\ n < n + 1
    OBVIOUS
  <2>2. PICK f : Leads(f, path, n) /\ Walk(path, n) = f[n]
    BY <1>1, <2>1
  <2>3. PICK g : Leads(g, path, n + 1) /\ Walk(path, n + 1) = g[n + 1]
    BY <1>1, <2>1
  <2>4. f[n] = g[n]
    <3>1. \A k \in 0 .. n : f[k] = g[k]
      BY <2>1, <2>2, <2>3, LeadsOneWay
    <3> QED
      BY <2>1, <3>1
  <2>5. g[n + 1] = Step(g[n], path[n + 1])
    BY <2>1, <2>3, LeadsSteps
  <2> QED
    BY <2>2, <2>3, <2>4, <2>5
<1> QED
  BY <1>2, <1>3

\* The same after a step of the system.
LEMMA WalkTakesStepsNext == WalkSteps'
PROOF
  BY WalkTakesSteps, PTL

-----------------------------------------------------------------------------
LEMMA LowestUnique ==
  ASSUME NEW S \in SUBSET Nat, NEW i, NEW j, Lowest(i, S), Lowest(j, S)
  PROVE  i = j
PROOF
<1>1. i \in Nat /\ j \in Nat /\ i <= j /\ j <= i
  BY DEF Lowest
<1> QED
  BY <1>1

\* What TypeOK says of one directory.
LEMMA DirType ==
  ASSUME TypeOK
  PROVE  /\ Len(dir) \in Nat /\ DOMAIN dir = 1 .. Len(dir) /\ Len(dir) >= 1 /\ Len(file) \in Nat
         /\ DOMAIN file = 1 .. Len(file)
         /\ \A d \in 1 .. Len(dir) :
              /\ dir[d] \in [name : Names, childs : Seq(1 .. Len(dir)), leaves : Seq(1 .. Len(file))]
              /\ dir[d].name \in Names
              /\ dir[d].childs \in Seq(1 .. Len(dir)) /\ dir[d].leaves \in Seq(1 .. Len(file))
              /\ Len(dir[d].childs) \in Nat /\ DOMAIN dir[d].childs = 1 .. Len(dir[d].childs)
              /\ Len(dir[d].leaves) \in Nat /\ DOMAIN dir[d].leaves = 1 .. Len(dir[d].leaves)
              /\ \A i \in DOMAIN dir[d].childs : dir[d].childs[i] \in 1 .. Len(dir)
              /\ \A i \in DOMAIN dir[d].leaves : dir[d].leaves[i] \in 1 .. Len(file)
PROOF
<1>1. /\ dir \in Seq([name : Names, childs : Seq(1 .. Len(dir)), leaves : Seq(1 .. Len(file))])
      /\ Len(dir) >= Len(DeviceNames) /\ Len(DeviceNames) >= 1 /\ Len(DeviceNames) \in Nat
      /\ file \in Seq([name : Names, data : Seq(Bytes)])
  BY FileSystemAssumption DEF TypeOK
<1>2. /\ Len(dir) \in Nat /\ DOMAIN dir = 1 .. Len(dir) /\ Len(dir) >= 1 /\ Len(file) \in Nat
      /\ DOMAIN file = 1 .. Len(file)
  BY <1>1
<1>3. ASSUME NEW d \in 1 .. Len(dir)
      PROVE  /\ dir[d] \in [name : Names, childs : Seq(1 .. Len(dir)), leaves : Seq(1 .. Len(file))]
             /\ dir[d].name \in Names
             /\ dir[d].childs \in Seq(1 .. Len(dir)) /\ dir[d].leaves \in Seq(1 .. Len(file))
  <2>1. dir[d] \in [name : Names, childs : Seq(1 .. Len(dir)), leaves : Seq(1 .. Len(file))]
    BY <1>1, <1>3, ElementOfSeq
  <2> QED
    BY <2>1
<1>4. ASSUME NEW A, NEW q \in Seq(A)
      PROVE  Len(q) \in Nat /\ DOMAIN q = 1 .. Len(q) /\ \A i \in DOMAIN q : q[i] \in A
  BY LenProperties
<1> QED
  BY <1>2, <1>3, <1>4

\* The loop of fs_traverse over one directory: the first match or none.
ChildFacts ==
  TypeOK => \A d \in 1 .. Len(dir), n \in Names :
    /\ ChildHits(d, n) \subseteq DOMAIN dir[d].childs
    /\ ChildHits(d, n) = {} => Child(d, n) = None
    /\ ChildHits(d, n) # {} => \E i \in DOMAIN dir[d].childs : Lowest(i, ChildHits(d, n))
    /\ \A i \in DOMAIN dir[d].childs :
         Lowest(i, ChildHits(d, n)) =>
           Child(d, n) = dir[d].childs[i] /\ Child(d, n) \in 1 .. Len(dir)

LeafFacts ==
  TypeOK => \A d \in 1 .. Len(dir), n \in Names :
    /\ LeafHits(d, n) \subseteq DOMAIN dir[d].leaves
    /\ LeafHits(d, n) = {} => Leaf(d, n) = None
    /\ LeafHits(d, n) # {} => \E i \in DOMAIN dir[d].leaves : Lowest(i, LeafHits(d, n))
    /\ \A i \in DOMAIN dir[d].leaves :
         Lowest(i, LeafHits(d, n)) =>
           Leaf(d, n) = dir[d].leaves[i] /\ Leaf(d, n) \in 1 .. Len(file)

LEMMA ChildIsFirst == ChildFacts
PROOF
<1> SUFFICES ASSUME TypeOK, NEW d \in 1 .. Len(dir), NEW n \in Names
             PROVE  /\ ChildHits(d, n) \subseteq DOMAIN dir[d].childs
                    /\ ChildHits(d, n) = {} => Child(d, n) = None
                    /\ ChildHits(d, n) # {} => \E i \in DOMAIN dir[d].childs : Lowest(i, ChildHits(d, n))
                    /\ \A i \in DOMAIN dir[d].childs :
                         Lowest(i, ChildHits(d, n)) =>
                           Child(d, n) = dir[d].childs[i] /\ Child(d, n) \in 1 .. Len(dir)
  BY DEF ChildFacts
<1> DEFINE H == ChildHits(d, n)
<1>1. H \subseteq DOMAIN dir[d].childs
  BY DEF ChildHits
<1>2. H \in SUBSET Nat
  BY <1>1, DirType
<1>3. Child(d, n) = IF \E i \in H : Lowest(i, H)
                    THEN dir[d].childs[CHOOSE i \in H : Lowest(i, H)] ELSE None
  BY DEF Child
<1> HIDE DEF H
<1>4. H = {} => Child(d, n) = None
  BY <1>3
<1>5. H # {} => \E i \in H : Lowest(i, H)
  BY <1>2, Least
<1>6. ASSUME NEW i \in DOMAIN dir[d].childs, Lowest(i, H)
      PROVE  Child(d, n) = dir[d].childs[i] /\ Child(d, n) \in 1 .. Len(dir)
  <2> DEFINE j == CHOOSE k \in H : Lowest(k, H)
  <2>1. i \in H
    BY <1>6 DEF Lowest
  <2>2. Lowest(j, H)
    BY <1>6, <2>1
  <2>3. j = i
    BY <1>2, <1>6, <2>2, LowestUnique
  <2> QED
    BY <1>3, <1>6, <2>1, <2>3, DirType
<1> QED
  BY <1>1, <1>4, <1>5, <1>6 DEF H

LEMMA LeafIsFirst == LeafFacts
PROOF
<1> SUFFICES ASSUME TypeOK, NEW d \in 1 .. Len(dir), NEW n \in Names
             PROVE  /\ LeafHits(d, n) \subseteq DOMAIN dir[d].leaves
                    /\ LeafHits(d, n) = {} => Leaf(d, n) = None
                    /\ LeafHits(d, n) # {} => \E i \in DOMAIN dir[d].leaves : Lowest(i, LeafHits(d, n))
                    /\ \A i \in DOMAIN dir[d].leaves :
                         Lowest(i, LeafHits(d, n)) =>
                           Leaf(d, n) = dir[d].leaves[i] /\ Leaf(d, n) \in 1 .. Len(file)
  BY DEF LeafFacts
<1> DEFINE H == LeafHits(d, n)
<1>1. H \subseteq DOMAIN dir[d].leaves
  BY DEF LeafHits
<1>2. H \in SUBSET Nat
  BY <1>1, DirType
<1>3. Leaf(d, n) = IF \E i \in H : Lowest(i, H)
                   THEN dir[d].leaves[CHOOSE i \in H : Lowest(i, H)] ELSE None
  BY DEF Leaf
<1> HIDE DEF H
<1>4. H = {} => Leaf(d, n) = None
  BY <1>3
<1>5. H # {} => \E i \in H : Lowest(i, H)
  BY <1>2, Least
<1>6. ASSUME NEW i \in DOMAIN dir[d].leaves, Lowest(i, H)
      PROVE  Leaf(d, n) = dir[d].leaves[i] /\ Leaf(d, n) \in 1 .. Len(file)
  <2> DEFINE j == CHOOSE k \in H : Lowest(k, H)
  <2>1. i \in H
    BY <1>6 DEF Lowest
  <2>2. Lowest(j, H)
    BY <1>6, <2>1
  <2>3. j = i
    BY <1>2, <1>6, <2>2, LowestUnique
  <2> QED
    BY <1>3, <1>6, <2>1, <2>3, DirType
<1> QED
  BY <1>1, <1>4, <1>5, <1>6 DEF H

LEMMA FirstNext == ChildFacts' /\ LeafFacts'
PROOF
<1>1. ChildFacts /\ LeafFacts
  BY ChildIsFirst, LeafIsFirst
<1> QED
  BY <1>1, PTL

-----------------------------------------------------------------------------
\* The devices that are mounted are different ones, the root first.
MountedOnce ==
  /\ mounted[1] = Root
  /\ \A i, j \in DOMAIN mounted : mounted[i] = mounted[j] => i = j

IsMounted(c) == \E i \in DOMAIN mounted : mounted[i] = c

\* A device that is not mounted has nothing in its root directory.
BareUntilMounted ==
  \A c \in 2 .. Len(DeviceNames) :
    ~ IsMounted(c) => dir[c].childs = <<>> /\ dir[c].leaves = <<>>

\* sys_close and the creation of a task leave cursors at 0.
ClosedAtZero ==
  \A t \in Tasks, i \in Fds : fd[t][i].file = None => fd[t][i].cursor = 0

FInv == TypeOK /\ TreeShape /\ MountedOnce /\ BareUntilMounted /\ ClosedAtZero

\* A path leads to a directory that the tree holds, or nowhere.
LEMMA WalkReaches ==
  ASSUME FInv, NEW path \in Seq(Names), NEW n \in 0 .. Len(path)
  PROVE  /\ Walk(path, n) \in 0 .. Len(dir)
         /\ Walk(path, n) \in 2 .. Len(DeviceNames) => IsMounted(Walk(path, n))
PROOF
<1> DEFINE S == {k \in 0 .. Len(path) :
                   /\ Walk(path, k) \in 0 .. Len(dir)
                   /\ Walk(path, k) \in 2 .. Len(DeviceNames) => IsMounted(Walk(path, k))}
<1>1. /\ Len(path) \in Nat /\ Len(dir) \in Nat /\ Len(dir) >= 1
      /\ \A k \in 1 .. Len(path) : path[k] \in Names
  BY DirType DEF FInv
<1>2. 0 \in S
  <2>1. Walk(path, 0) = 1
    BY WalkTakesSteps DEF WalkSteps, Root
  <2> QED
    BY <1>1, <2>1
<1>3. ASSUME NEW k \in 0 .. Len(path), k \in S, k < Len(path) PROVE k + 1 \in S
  <2> DEFINE d == Walk(path, k)
             e == Walk(path, k + 1)
  <2>1. e = Step(d, path[k + 1])
    BY <1>3, WalkTakesSteps DEF WalkSteps
  <2>2. k + 1 \in 0 .. Len(path) /\ path[k + 1] \in Names /\ d \in 0 .. Len(dir)
    BY <1>1, <1>3
  <2> HIDE DEF d, e
  <2>3. CASE e = None
    BY <1>1, <2>2, <2>3 DEF None, e
  <2>4. CASE e # None
    <3>1. d # None /\ e = Child(d, path[k + 1])
      BY <2>1, <2>4 DEF Step
    <3>2. d \in 1 .. Len(dir)
      BY <1>1, <2>2, <3>1 DEF None
    <3>3. PICK i \in DOMAIN dir[d].childs : e = dir[d].childs[i] /\ e \in 1 .. Len(dir)
      BY <2>2, <2>4, <3>1, <3>2, ChildIsFirst DEF ChildFacts, FInv
    <3>4. ASSUME e \in 2 .. Len(DeviceNames), ~ IsMounted(e) PROVE FALSE
      <4>1. Places(e) = {}
        BY <3>3, <3>4 DEF FInv, TreeShape, IsMounted
      <4>2. i \in 1 .. Slots
        <5>1. Len(dir[d].childs) <= Slots /\ Slots \in Nat
          BY <3>2, FileSystemAssumption DEF FInv, TypeOK
        <5>2. Len(dir[d].childs) \in Nat /\ DOMAIN dir[d].childs = 1 .. Len(dir[d].childs)
          BY <3>2, DirType DEF FInv
        <5>3. i \in 1 .. Len(dir[d].childs)
          BY <3>3, <5>2
        <5> QED
          BY <5>1, <5>2, <5>3
      <4>3. <<d, i>> \in Places(e)
        BY <3>2, <3>3, <4>2 DEF Places
      <4> QED
        BY <4>1, <4>3
    <3> QED
      BY <1>1, <2>2, <3>3, <3>4 DEF e
  <2> QED
    BY <2>3, <2>4
<1> HIDE DEF S
<1>4. 0 .. Len(path) \subseteq S
  BY <1>1, <1>2, <1>3, Induction
<1> QED
  BY <1>4 DEF S

-----------------------------------------------------------------------------
LEMMA FunSeq ==
  ASSUME NEW n \in Nat, NEW T, NEW f \in [1 .. n -> T]
  PROVE  f \in Seq(T) /\ Len(f) = n
PROOF
  OBVIOUS

LEMMA Appended ==
  ASSUME NEW A, NEW B, A \subseteq B, NEW q \in Seq(A), NEW e \in B
  PROVE  /\ Append(q, e) \in Seq(B)
         /\ Len(Append(q, e)) = Len(q) + 1
         /\ Len(q) \in Nat /\ DOMAIN q = 1 .. Len(q)
         /\ DOMAIN Append(q, e) = 1 .. Len(q) + 1
         /\ \A i \in 1 .. Len(q) : Append(q, e)[i] = q[i]
         /\ Append(q, e)[Len(q) + 1] = e
PROOF
<1>1. q \in Seq(B)
  BY SeqMonotonic
<1> QED
  BY <1>1, AppendProperties, LenProperties

\* A directory with other children, or with other files.
LEMMA RecordExcept ==
  ASSUME NEW A, NEW B, NEW C, NEW r \in [name : A, childs : B, leaves : C], NEW x
  PROVE  [r EXCEPT !.childs = x] = [name |-> r.name, childs |-> x, leaves |-> r.leaves]
PROOF
  OBVIOUS

LEMMA RecordExceptLeaves ==
  ASSUME NEW A, NEW B, NEW C, NEW r \in [name : A, childs : B, leaves : C], NEW x
  PROVE  [r EXCEPT !.leaves = x] = [name |-> r.name, childs |-> r.childs, leaves |-> x]
PROOF
  OBVIOUS

DirsOf(n, m) == [name : Names, childs : Seq(1 .. n), leaves : Seq(1 .. m)]

\* The directories still fit when there are more directories or files to name.
LEMMA DirWidens ==
  ASSUME TypeOK, NEW n \in Nat, NEW m \in Nat, n >= Len(dir), m >= Len(file)
  PROVE  dir \in Seq(DirsOf(n, m))
PROOF
<1>1. Len(dir) \in Nat /\ DOMAIN dir = 1 .. Len(dir) /\ Len(file) \in Nat
  BY DirType
<1>2. 1 .. Len(dir) \subseteq 1 .. n /\ 1 .. Len(file) \subseteq 1 .. m
  BY <1>1
<1>3. ASSUME NEW e \in 1 .. Len(dir) PROVE dir[e] \in DirsOf(n, m)
  <2>1. dir[e] \in [name : Names, childs : Seq(1 .. Len(dir)), leaves : Seq(1 .. Len(file))]
    BY DirType
  <2>2. dir[e].childs \in Seq(1 .. n) /\ dir[e].leaves \in Seq(1 .. m)
    BY <1>2, DirType, SeqMonotonic
  <2> QED
    BY <2>1, <2>2 DEF DirsOf
<1> HIDE DEF DirsOf
<1>4. dir = [e \in 1 .. Len(dir) |-> dir[e]]
  <2>1. dir \in Seq([name : Names, childs : Seq(1 .. Len(dir)), leaves : Seq(1 .. Len(file))])
    BY DEF TypeOK
  <2> QED
    BY <2>1, LenProperties
<1>5. dir \in [1 .. Len(dir) -> DirsOf(n, m)]
  BY <1>3, <1>4
<1>6. \A f \in [1 .. Len(dir) -> DirsOf(n, m)] : f \in Seq(DirsOf(n, m))
  BY <1>1, FunSeq
<1> QED
  BY <1>5, <1>6

\* The sequence of directories after a change of one of them.
LEMMA DirChanged ==
  ASSUME NEW T, dir \in Seq(T), NEW d \in 1 .. Len(dir), NEW r \in T
  PROVE  /\ [dir EXCEPT ![d] = r] \in Seq(T)
         /\ Len([dir EXCEPT ![d] = r]) = Len(dir)
         /\ \A e \in 1 .. Len(dir) : e # d => [dir EXCEPT ![d] = r][e] = dir[e]
         /\ [dir EXCEPT ![d] = r][d] = r
PROOF
  BY ExceptSeq

\* Directory c, which is empty and was in no directory, is put into d.
Attach(d, c) ==
  /\ d \in 1 .. Len(dir) /\ c \in 2 .. Len(dir') /\ c # d
  /\ d \in 2 .. Len(DeviceNames) => IsMounted(d)
  /\ \/ Len(dir') = Len(dir)
     \/ Len(dir') = Len(dir) + 1 /\ c = Len(dir')
  /\ dir' \in Seq(DirsOf(Len(dir'), Len(file)))
  /\ Places(c) = {}
  /\ \A e \in 1 .. Len(dir) :
       /\ dir'[e].name = dir[e].name /\ dir'[e].leaves = dir[e].leaves
       /\ e # d => dir'[e].childs = dir[e].childs
  /\ dir'[d].childs = Append(dir[d].childs, c)
  /\ Len(dir[d].childs) < Slots
  /\ dir'[c].childs = <<>> /\ dir'[c].leaves = <<>>
  /\ UNCHANGED <<file, fd>>

LEMMA MkDirAttaches ==
  ASSUME FInv, NEW path \in DirPaths, MkDir(path)
  PROVE  /\ Attach(Parent(path), Len(dir) + 1)
         /\ Len(dir') = Len(dir) + 1 /\ mounted' = mounted
PROOF
<1> DEFINE d == Parent(path)
           n == Len(dir) + 1
           ch == Append(dir[d].childs, n)
           D == [dir EXCEPT ![d].childs = ch]
           N == Directory(FileName(path))
<1>1. TypeOK
  BY DEF FInv
<1>2. /\ d # None /\ Len(dir[d].childs) < Slots
      /\ dir' = Append(D, N) /\ UNCHANGED <<mounted, file, fd>>
  BY DEF MkDir
<1>3. path \in Seq(Names) /\ path # <<>>
  BY FileSystemAssumption
<1>4. Len(path) - 1 \in 0 .. Len(path) /\ FileName(path) \in Names
  BY <1>3 DEF FileName
<1>5. d \in 0 .. Len(dir) /\ (d \in 2 .. Len(DeviceNames) => IsMounted(d))
  BY <1>3, <1>4, WalkReaches DEF Parent
<1>6. Len(dir) \in Nat /\ n \in Nat /\ Len(file) \in Nat /\ Len(dir) >= 1
  BY <1>1, DirType
<1>7. d \in 1 .. Len(dir)
  BY <1>2, <1>5, <1>6 DEF None
<1> HIDE DEF d
<1>8. dir[d].childs \in Seq(1 .. Len(dir)) /\ dir[d].leaves \in Seq(1 .. Len(file))
  BY <1>1, <1>7, DirType
<1>9. ch \in Seq(1 .. n)
  <2>1. 1 .. Len(dir) \subseteq 1 .. n /\ n \in 1 .. n
    BY <1>6
  <2> QED
    BY <1>8, <2>1, Appended
<1> DEFINE r == [name |-> dir[d].name, childs |-> ch, leaves |-> dir[d].leaves]
<1>10. D = [dir EXCEPT ![d] = r]
  <2>1. dir[d] \in [name : Names, childs : Seq(1 .. Len(dir)), leaves : Seq(1 .. Len(file))]
    BY <1>1, <1>7, DirType
  <2> HIDE DEF ch, n
  <2>2. [dir[d] EXCEPT !.childs = ch]
          = [name |-> dir[d].name, childs |-> ch, leaves |-> dir[d].leaves]
    BY <2>1, RecordExcept
  <2>3. D = [dir EXCEPT ![d] = [dir[d] EXCEPT !.childs = ch]]
    OBVIOUS
  <2> QED
    BY <2>2, <2>3
<1> HIDE DEF ch, D
<1>11. /\ D \in Seq(DirsOf(n, Len(file))) /\ Len(D) = Len(dir)
       /\ \A e \in 1 .. Len(dir) : e # d => D[e] = dir[e]
       /\ D[d].name = dir[d].name /\ D[d].childs = ch /\ D[d].leaves = dir[d].leaves
  <2>1. n >= Len(dir) /\ Len(file) >= Len(file)
    BY <1>6
  <2>2. r.name = dir[d].name /\ r.childs = ch /\ r.leaves = dir[d].leaves
    OBVIOUS
  <2> HIDE DEF n
  <2>3. dir \in Seq(DirsOf(n, Len(file)))
    BY <1>1, <1>6, <2>1, DirWidens
  <2>4. r \in DirsOf(n, Len(file))
    BY <1>1, <1>7, <1>8, <1>9, DirType DEF DirsOf
  <2> HIDE DEF r
  <2> QED
    BY <1>7, <1>10, <2>2, <2>3, <2>4, DirChanged
<1>12. N \in DirsOf(n, Len(file)) /\ N.childs = <<>> /\ N.leaves = <<>>
  BY <1>4 DEF DirsOf, Directory
<1> HIDE DEF N
<1>13. /\ dir' \in Seq(DirsOf(n, Len(file))) /\ Len(dir') = n
       /\ \A e \in 1 .. Len(dir) : dir'[e] = D[e]
       /\ dir'[n] = N
  BY <1>2, <1>11, <1>12, Appended
<1>14. Places(n) = {}
  <2> SUFFICES ASSUME NEW q \in Places(n) PROVE FALSE
    OBVIOUS
  <2>1. /\ q[1] \in 1 .. Len(dir) /\ q[2] \in DOMAIN dir[q[1]].childs
        /\ dir[q[1]].childs[q[2]] = n
    BY DEF Places
  <2> HIDE DEF n
  <2>2. n \in 1 .. Len(dir)
    <3>1. dir[q[1]].childs \in Seq(1 .. Len(dir))
      BY <1>1, <2>1, DirType
    <3>2. dir[q[1]].childs[q[2]] \in 1 .. Len(dir)
      <4> DEFINE s == dir[q[1]].childs
      <4>1. s \in Seq(1 .. Len(dir)) /\ q[2] \in DOMAIN s
        BY <2>1, <3>1
      <4> HIDE DEF s
      <4>2. s[q[2]] \in 1 .. Len(dir)
        BY <4>1
      <4> QED
        BY <4>2 DEF s
    <3> QED
      BY <2>1, <3>2
  <2> QED
    BY <1>6, <2>2 DEF n
<1>15. n \in 2 .. n /\ n # d /\ n \notin 1 .. Len(dir)
  BY <1>6, <1>7
<1>16. /\ dir'[d].childs = Append(dir[d].childs, n)
       /\ dir'[n].childs = <<>> /\ dir'[n].leaves = <<>>
       /\ \A e \in 1 .. Len(dir) :
            /\ dir'[e].name = dir[e].name /\ dir'[e].leaves = dir[e].leaves
            /\ e # d => dir'[e].childs = dir[e].childs
  BY <1>7, <1>11, <1>12, <1>13 DEF ch
<1>17. Attach(d, n)
  BY <1>2, <1>5, <1>7, <1>13, <1>14, <1>15, <1>16 DEF Attach
<1> QED
  BY <1>2, <1>13, <1>17 DEF d

LEMMA MountAttaches ==
  ASSUME FInv, NEW c \in 2 .. Len(DeviceNames), NEW path \in MountPaths, Mount(c, path)
  PROVE  /\ Attach(Traverse(path), c)
         /\ Len(dir') = Len(dir) /\ ~ IsMounted(c)
         /\ mounted' = IF Len(mounted) < Slots THEN Append(mounted, c) ELSE mounted
PROOF
<1> DEFINE d == Traverse(path)
           ch == Append(dir[d].childs, c)
<1>1. TypeOK /\ BareUntilMounted /\ TreeShape
  BY DEF FInv
<1>2. /\ \A i \in DOMAIN mounted : mounted[i] # c
      /\ d # None /\ Len(dir[d].childs) < Slots
      /\ dir' = [dir EXCEPT ![d].childs = ch] /\ UNCHANGED <<file, fd>>
      /\ mounted' = IF Len(mounted) < Slots THEN Append(mounted, c) ELSE mounted
  BY DEF Mount
<1>3. path \in Seq(Names) /\ Len(path) \in 0 .. Len(path)
  BY FileSystemAssumption
<1>4. d \in 0 .. Len(dir) /\ (d \in 2 .. Len(DeviceNames) => IsMounted(d))
  BY <1>3, WalkReaches DEF Traverse
<1>5. /\ Len(dir) \in Nat /\ Len(file) \in Nat /\ Len(DeviceNames) \in Nat
      /\ Len(dir) >= Len(DeviceNames)
  BY <1>1, DirType, FileSystemAssumption DEF TypeOK
<1>6. d \in 1 .. Len(dir)
  BY <1>2, <1>4, <1>5 DEF None
<1>7. ~ IsMounted(c) /\ c # d
  BY <1>2, <1>4 DEF IsMounted
<1> HIDE DEF d
<1>8. c \in 2 .. Len(dir) /\ c \in 1 .. Len(dir)
  BY <1>5
<1>9. dir[d].childs \in Seq(1 .. Len(dir)) /\ dir[d].leaves \in Seq(1 .. Len(file))
  BY <1>1, <1>6, DirType
<1>10. ch \in Seq(1 .. Len(dir))
  BY <1>8, <1>9, Appended
<1> DEFINE r == [name |-> dir[d].name, childs |-> ch, leaves |-> dir[d].leaves]
<1>11. dir' = [dir EXCEPT ![d] = r]
  <2>1. dir[d] \in [name : Names, childs : Seq(1 .. Len(dir)), leaves : Seq(1 .. Len(file))]
    BY <1>1, <1>6, DirType
  <2> HIDE DEF ch
  <2>2. [dir[d] EXCEPT !.childs = ch]
          = [name |-> dir[d].name, childs |-> ch, leaves |-> dir[d].leaves]
    BY <2>1, RecordExcept
  <2>3. dir' = [dir EXCEPT ![d] = [dir[d] EXCEPT !.childs = ch]]
    BY <1>2
  <2> QED
    BY <2>2, <2>3
<1> HIDE DEF ch
<1>12. /\ dir' \in Seq(DirsOf(Len(dir), Len(file))) /\ Len(dir') = Len(dir)
       /\ \A e \in 1 .. Len(dir) : e # d => dir'[e] = dir[e]
       /\ dir'[d].name = dir[d].name /\ dir'[d].childs = ch /\ dir'[d].leaves = dir[d].leaves
  <2>1. Len(dir) >= Len(dir) /\ Len(file) >= Len(file)
    BY <1>5
  <2>2. r.name = dir[d].name /\ r.childs = ch /\ r.leaves = dir[d].leaves
    OBVIOUS
  <2>3. dir \in Seq(DirsOf(Len(dir), Len(file)))
    BY <1>1, <1>5, <2>1, DirWidens
  <2>4. r \in DirsOf(Len(dir), Len(file))
    BY <1>1, <1>6, <1>9, <1>10, DirType DEF DirsOf
  <2> HIDE DEF r
  <2> QED
    BY <1>6, <1>11, <2>2, <2>3, <2>4, DirChanged
<1>13. dir[c].childs = <<>> /\ dir[c].leaves = <<>>
  BY <1>1, <1>7 DEF BareUntilMounted
<1>14. Places(c) = {}
  BY <1>1, <1>5, <1>7, <1>8 DEF TreeShape, IsMounted
<1>15. Attach(d, c)
  BY <1>2, <1>4, <1>6, <1>7, <1>8, <1>12, <1>13, <1>14 DEF Attach, ch
<1> QED
  BY <1>2, <1>7, <1>12, <1>15 DEF d

-----------------------------------------------------------------------------
\* mountinfo has room for a device that is not in it: there are not more devices
\* than slots, and none is in it twice.
LEMMA RoomToMount ==
  ASSUME FInv, NEW c \in 2 .. Len(DeviceNames), ~ IsMounted(c)
  PROVE  Len(mounted) < Slots
PROOF
<1> DEFINE N == Len(DeviceNames)
           m == Len(mounted)
<1>1. N \in Nat /\ N <= Slots /\ Slots \in Nat
  BY FileSystemAssumption
<1>2. mounted \in [1 .. m -> 1 .. N] /\ m \in Nat /\ DOMAIN mounted = 1 .. m
  BY LenProperties DEF FInv, TypeOK
<1>3. mounted \in Injection(1 .. m, 1 .. N)
  BY <1>2 DEF FInv, MountedOnce, Injection, IsInjective
<1> HIDE DEF N, m
<1>4. c \in 1 .. N /\ \A i \in 1 .. m : mounted[i] # c
  BY <1>1, <1>2 DEF IsMounted, N
<1>5. mounted \notin Surjection(1 .. m, 1 .. N)
  BY <1>4 DEF Surjection
<1>6. ASSUME NEW k \in Nat PROVE IsFiniteSet(1 .. k) /\ Cardinality(1 .. k) = k
  <2>1. \A a, b \in Int : /\ IsFiniteSet(a .. b)
                          /\ Cardinality(a .. b) = IF a > b THEN 0 ELSE b - a + 1
    BY FS_Interval
  <2>2. 1 \in Int /\ k \in Int
    OBVIOUS
  <2>3. IsFiniteSet(1 .. k) /\ Cardinality(1 .. k) = IF 1 > k THEN 0 ELSE k - 1 + 1
    BY <2>1, <2>2, Zenon
  <2>4. (IF 1 > k THEN 0 ELSE k - 1 + 1) = k
    OBVIOUS
  <2> QED
    BY <2>3, <2>4
<1>7. m <= N /\ m # N
  <2>1. m \in Nat /\ N \in Nat
    BY <1>1, <1>2
  <2>2. IsFiniteSet(1 .. N) /\ Cardinality(1 .. N) = N /\ Cardinality(1 .. m) = m
    BY <1>6, <2>1
  <2> QED
    BY <1>3, <1>5, <2>2, FS_Injection
<1>8. m < Slots
  <2>1. m \in Nat
    BY <1>2
  <2> QED
    BY <1>1, <1>7, <2>1
<1> QED
  BY <1>8 DEF m

\* Only c has a new place in the tree.
LEMMA AttachPlaces ==
  ASSUME FInv, NEW d, NEW c, Attach(d, c)
  PROVE  /\ Places(c)' = {<<d, Len(dir[d].childs) + 1>>}
         /\ \A e \in 1 .. Len(dir) : e # c => Places(e)' = Places(e)
PROOF
<1> DEFINE n == Len(dir[d].childs)
           A == Append(dir[d].childs, c)
<1>1. TypeOK
  BY DEF FInv
<1>2. d \in 1 .. Len(dir) /\ c \in 2 .. Len(dir') /\ c # d /\ n < Slots /\ Slots \in Nat
  BY FileSystemAssumption DEF Attach
<1>3. /\ n \in Nat /\ DOMAIN dir[d].childs = 1 .. n /\ dir[d].childs \in Seq(1 .. Len(dir))
      /\ Len(dir) \in Nat
  BY <1>1, <1>2, DirType
<1>4. 1 .. Len(dir) \subseteq 1 .. Len(dir') /\ Len(dir') \in Nat /\ c \in 1 .. Len(dir')
  BY <1>2, <1>3 DEF Attach
<1>5. /\ DOMAIN A = 1 .. n + 1 /\ \A i \in 1 .. n : A[i] = dir[d].childs[i]
      /\ A[n + 1] = c
  BY <1>3, <1>4, Appended
<1>6. dir'[d].childs = A /\ dir'[c].childs = <<>>
  BY DEF Attach
<1>7. \A e \in 1 .. Len(dir) : e # d => dir'[e].childs = dir[e].childs
  BY DEF Attach
<1>8. \A e \in 1 .. Len(dir') : e \in 1 .. Len(dir) \/ e = c
  BY <1>3 DEF Attach
<1> HIDE DEF A, n
\* A place afterwards is one from before, or the new one.
<1>9. ASSUME NEW a \in 1 .. Len(dir'), NEW i \in DOMAIN dir'[a].childs
      PROVE  \/ a = d /\ i = n + 1 /\ dir'[a].childs[i] = c
             \/ /\ a \in 1 .. Len(dir) /\ i \in DOMAIN dir[a].childs
                /\ dir'[a].childs[i] = dir[a].childs[i]
  <2>1. CASE a = d
    <3>1. i \in 1 .. n + 1
      BY <1>5, <1>6, <1>9, <2>1
    <3>2. i = n + 1 \/ i \in 1 .. n
      BY <1>3, <3>1
    <3> QED
      BY <1>2, <1>3, <1>5, <1>6, <2>1, <3>2
  <2>2. CASE a # d
    <3>1. a # c
      BY <1>6, <1>9
    <3> QED
      BY <1>7, <1>8, <1>9, <2>2, <3>1
  <2> QED
    BY <2>1, <2>2
<1>10. n + 1 \in 1 .. n + 1 /\ n + 1 \in 1 .. Slots /\ n + 1 \notin 1 .. n
  BY <1>2, <1>3
<1>11. ASSUME NEW a \in 1 .. Len(dir), NEW i \in DOMAIN dir[a].childs
       PROVE  i \in DOMAIN dir'[a].childs /\ dir'[a].childs[i] = dir[a].childs[i]
  <2>1. CASE a = d
    <3>1. i \in 1 .. n
      BY <1>3, <1>11, <2>1
    <3>2. i \in 1 .. n + 1
      BY <1>3, <3>1
    <3> QED
      BY <1>5, <1>6, <2>1, <3>1, <3>2
  <2>2. CASE a # d
    BY <1>7, <1>11, <2>2
  <2> QED
    BY <2>1, <2>2
<1> DEFINE B(e) == Places(e)
           C(e) == {p \in (1 .. Len(dir')) \X (1 .. Slots) :
                      p[2] \in DOMAIN dir'[p[1]].childs /\ dir'[p[1]].childs[p[2]] = e}
<1>12. ASSUME NEW e \in 1 .. Len(dir), e # c
       PROVE  C(e) = B(e)
  <2>1. ASSUME NEW p \in C(e) PROVE p \in B(e)
    <3>1. /\ p \in (1 .. Len(dir')) \X (1 .. Slots) /\ p[1] \in 1 .. Len(dir')
          /\ p[2] \in 1 .. Slots /\ p = <<p[1], p[2]>>
          /\ p[2] \in DOMAIN dir'[p[1]].childs /\ dir'[p[1]].childs[p[2]] = e
      OBVIOUS
    <3>2. /\ p[1] \in 1 .. Len(dir) /\ p[2] \in DOMAIN dir[p[1]].childs
          /\ dir'[p[1]].childs[p[2]] = dir[p[1]].childs[p[2]]
      BY <1>9, <1>12, <3>1
    <3> QED
      BY <3>1, <3>2 DEF Places
  <2>2. ASSUME NEW p \in B(e) PROVE p \in C(e)
    <3>1. /\ p[1] \in 1 .. Len(dir) /\ p[2] \in 1 .. Slots /\ p = <<p[1], p[2]>>
          /\ p[2] \in DOMAIN dir[p[1]].childs /\ dir[p[1]].childs[p[2]] = e
      BY DEF Places
    <3>2. p[2] \in DOMAIN dir'[p[1]].childs /\ dir'[p[1]].childs[p[2]] = e /\ p[1] \in 1 .. Len(dir')
      BY <1>4, <1>11, <3>1
    <3> QED
      BY <3>1, <3>2
  <2> QED
    BY <2>1, <2>2
<1>13. C(c) = {<<d, n + 1>>}
  <2>1. <<d, n + 1>> \in C(c)
    BY <1>2, <1>4, <1>5, <1>6, <1>10
  <2>2. ASSUME NEW p \in C(c) PROVE p = <<d, n + 1>>
    <3>1. /\ p[1] \in 1 .. Len(dir') /\ p[2] \in 1 .. Slots /\ p = <<p[1], p[2]>>
          /\ p[2] \in DOMAIN dir'[p[1]].childs /\ dir'[p[1]].childs[p[2]] = c
      OBVIOUS
    <3>2. ASSUME p[1] \in 1 .. Len(dir), p[2] \in DOMAIN dir[p[1]].childs,
                 dir[p[1]].childs[p[2]] = c
          PROVE  FALSE
      <4>1. p \in Places(c)
        BY <3>1, <3>2 DEF Places
      <4> QED
        BY <4>1 DEF Attach
    <3> QED
      BY <1>9, <3>1, <3>2
  <2> QED
    BY <2>1, <2>2
<1>14. \A e : Places(e)' = C(e)
  BY DEF Places
<1> HIDE DEF C
<1> QED
  BY <1>12, <1>13, <1>14 DEF n

\* What fs_mkdir and fs_mount do to mountinfo.
Records(c) ==
  \/ mounted' = mounted /\ Len(dir') = Len(dir) + 1
  \/ /\ c \in 2 .. Len(DeviceNames) /\ Len(dir') = Len(dir) /\ ~ IsMounted(c)
     /\ Len(mounted) < Slots /\ mounted' = Append(mounted, c)

LEMMA MountedGrows ==
  ASSUME FInv, NEW d, NEW c, Attach(d, c), Records(c)
  PROVE  /\ mounted' \in Seq(1 .. Len(DeviceNames)) /\ Len(mounted') \in 1 .. Slots
         /\ MountedOnce'
         /\ \A e : IsMounted(e)' <=> IsMounted(e) \/ (mounted' # mounted /\ e = c)
PROOF
<1>1. /\ mounted \in Seq(1 .. Len(DeviceNames)) /\ Len(mounted) \in 1 .. Slots
      /\ Slots \in Nat /\ MountedOnce
  BY FileSystemAssumption DEF FInv, TypeOK
<1>2. Len(mounted) \in Nat /\ DOMAIN mounted = 1 .. Len(mounted) /\ Len(mounted) >= 1
  BY <1>1
<1>3. CASE mounted' = mounted
  BY <1>1, <1>3 DEF MountedOnce, IsMounted
<1>4. CASE mounted' # mounted
  <2> DEFINE m == Len(mounted)
             M == Append(mounted, c)
  <2>1. c \in 1 .. Len(DeviceNames) /\ ~ IsMounted(c) /\ m < Slots /\ mounted' = M
    BY <1>4 DEF Records
  <2>2. /\ M \in Seq(1 .. Len(DeviceNames)) /\ Len(M) = m + 1 /\ DOMAIN M = 1 .. m + 1
        /\ \A i \in 1 .. m : M[i] = mounted[i]
        /\ M[m + 1] = c
    BY <1>1, <2>1, Appended
  <2> HIDE DEF M, m
  <2>3. m \in Nat /\ m >= 1 /\ DOMAIN mounted = 1 .. m
    BY <1>2 DEF m
  <2>4. m + 1 \in 1 .. Slots
    BY <1>1, <2>1, <2>3
  <2>5. \A i \in 1 .. m + 1 : i = m + 1 \/ i \in 1 .. m
    BY <2>3
  <2>6. \A i \in 1 .. m : i \in 1 .. m + 1
    BY <2>3
  <2>7. \A i \in 1 .. m : M[i] # c
    BY <2>1, <2>2, <2>3 DEF IsMounted
  <2>8. MountedOnce'
    <3>1. M[1] = Root
      BY <1>1, <2>2, <2>3 DEF MountedOnce
    <3>2. ASSUME NEW i \in 1 .. m + 1, NEW j \in 1 .. m + 1, M[i] = M[j] PROVE i = j
      <4>1. CASE i \in 1 .. m /\ j \in 1 .. m
        BY <1>1, <2>2, <2>3, <3>2, <4>1 DEF MountedOnce
      <4>2. CASE i = m + 1 /\ j \in 1 .. m
        BY <2>2, <2>7, <3>2, <4>2
      <4>3. CASE j = m + 1 /\ i \in 1 .. m
        BY <2>2, <2>7, <3>2, <4>3
      <4> QED
        BY <2>5, <4>1, <4>2, <4>3
    <3> QED
      BY <2>1, <2>2, <3>1, <3>2 DEF MountedOnce
  <2>9. ASSUME NEW e PROVE IsMounted(e)' <=> IsMounted(e) \/ e = c
    <3>1. IsMounted(e)' <=> \E i \in 1 .. m + 1 : M[i] = e
      BY <2>1, <2>2 DEF IsMounted
    <3>2. IsMounted(e) <=> \E i \in 1 .. m : mounted[i] = e
      BY <2>3 DEF IsMounted
    <3>3. m + 1 \in 1 .. m + 1
      BY <2>3
    <3> QED
      BY <2>2, <2>5, <2>6, <3>1, <3>2, <3>3
  <2> QED
    BY <1>4, <2>1, <2>2, <2>4, <2>8, <2>9
<1> QED
  BY <1>3, <1>4

LEMMA AttachKeeps ==
  ASSUME FInv, NEW d, NEW c, Attach(d, c), Records(c)
  PROVE  FInv'
PROOF
<1>1. TypeOK /\ TreeShape /\ BareUntilMounted /\ ClosedAtZero
  BY DEF FInv
<1>2. /\ Len(dir) \in Nat /\ Len(dir) >= 1 /\ Len(DeviceNames) \in Nat
      /\ Len(dir) >= Len(DeviceNames)
  BY <1>1, DirType, FileSystemAssumption DEF TypeOK
<1>3. /\ d \in 1 .. Len(dir) /\ c \in 2 .. Len(dir') /\ c # d
      /\ Len(dir') = Len(dir) \/ (Len(dir') = Len(dir) + 1 /\ c = Len(dir'))
      /\ Len(dir[d].childs) < Slots /\ Slots \in Nat
      /\ UNCHANGED <<file, fd>>
  BY FileSystemAssumption DEF Attach
<1>4. \A e \in 1 .. Len(dir') : e \in 1 .. Len(dir) \/ e = c
  BY <1>2, <1>3
<1>5. Len(dir') \in Nat /\ Len(dir') >= Len(DeviceNames) /\ 1 \in 1 .. Len(dir)
  BY <1>2, <1>3
<1>6. TypeOK'
  <2>1. dir' \in Seq([name : Names, childs : Seq(1 .. Len(dir')), leaves : Seq(1 .. Len(file'))])
    BY <1>3 DEF Attach, DirsOf
  <2>2. ASSUME NEW e \in 1 .. Len(dir')
        PROVE  Len(dir'[e].childs) <= Slots /\ Len(dir'[e].leaves) <= Slots
    <3>1. CASE e = c
      BY <1>3, <3>1, FileSystemAssumption DEF Attach
    <3>2. CASE e \in 1 .. Len(dir) /\ e # d
      BY <1>1, <3>2 DEF Attach, TypeOK
    <3>3. CASE e = d
      <4>1. dir'[e].leaves = dir[d].leaves /\ dir'[e].childs = Append(dir[d].childs, c)
        BY <1>3, <3>3 DEF Attach
      <4>2. Len(Append(dir[d].childs, c)) = Len(dir[d].childs) + 1 /\ Len(dir[d].childs) \in Nat
        <5>1. dir[d].childs \in Seq(1 .. Len(dir))
          BY <1>1, <1>3, DirType
        <5>2. 1 .. Len(dir) \subseteq 1 .. Len(dir') /\ c \in 1 .. Len(dir')
          BY <1>2, <1>3
        <5> QED
          BY <5>1, <5>2, Appended
      <4>3. Len(dir[d].leaves) <= Slots
        BY <1>1, <1>3 DEF TypeOK
      <4> QED
        BY <1>3, <4>1, <4>2, <4>3
    <3> QED
      BY <1>4, <3>1, <3>2, <3>3
  <2>3. mounted' \in Seq(1 .. Len(DeviceNames)) /\ Len(mounted') \in 1 .. Slots
    BY MountedGrows
  <2>4. /\ file' \in Seq([name : Names, data : Seq(Bytes)])
        /\ fd' \in [Tasks -> [Fds -> [file : 0 .. Len(file'), cursor : Nat, flags : SUBSET Flags]]]
    BY <1>1, <1>3 DEF TypeOK
  <2> QED
    BY <1>5, <2>1, <2>2, <2>3, <2>4 DEF TypeOK
<1>7. TreeShape'
  <2>1. Places(Root)' = {}
    BY <1>1, <1>3, <1>5, AttachPlaces DEF TreeShape, Root
  <2>2. ASSUME NEW e \in 2 .. Len(dir')
        PROVE  IF e <= Len(DeviceNames) /\ ~ IsMounted(e)'
               THEN Places(e)' = {} ELSE \E p \in Places(e)' : Places(e)' = {p}
    <3>1. CASE e = c
      <4>1. ~ (e <= Len(DeviceNames) /\ ~ IsMounted(e)')
        <5>1. CASE Len(dir') = Len(dir) + 1 /\ c = Len(dir')
          BY <1>2, <3>1, <5>1
        <5>2. CASE Len(dir') = Len(dir)
          <6>1. mounted' # mounted
            <7>1. ~ IsMounted(c) /\ mounted' = Append(mounted, c) /\ c \in 1 .. Len(DeviceNames)
              BY <1>2, <5>2 DEF Records
            <7>2. mounted \in Seq(1 .. Len(DeviceNames)) /\ Len(mounted) \in Nat
              BY <1>1 DEF TypeOK
            <7>3. Len(Append(mounted, c)) = Len(mounted) + 1
              BY <7>1, <7>2, Appended
            <7> QED
              BY <7>1, <7>2, <7>3
          <6> QED
            BY <3>1, <6>1, MountedGrows
        <5> QED
          BY <1>3, <5>1, <5>2
      <4> QED
        BY <3>1, <4>1, AttachPlaces
    <3>2. CASE e # c
      <4>1. e \in 1 .. Len(dir) /\ e \in 2 .. Len(dir)
        BY <1>2, <1>3, <2>2, <3>2
      <4>2. Places(e)' = Places(e) /\ (IsMounted(e)' <=> IsMounted(e))
        BY <3>2, <4>1, AttachPlaces, MountedGrows
      <4> QED
        BY <1>1, <4>1, <4>2 DEF TreeShape, IsMounted
    <3> QED
      BY <3>1, <3>2
  <2> QED
    BY <2>1, <2>2 DEF TreeShape, IsMounted
<1>8. MountedOnce'
  BY MountedGrows
<1>9. BareUntilMounted'
  <2> SUFFICES ASSUME NEW e \in 2 .. Len(DeviceNames), ~ IsMounted(e)'
               PROVE  dir'[e].childs = <<>> /\ dir'[e].leaves = <<>>
    BY DEF BareUntilMounted
  <2>1. ~ IsMounted(e) /\ e \in 1 .. Len(dir) /\ e \in 2 .. Len(dir)
    BY <1>2, MountedGrows
  <2>2. dir[e].childs = <<>> /\ dir[e].leaves = <<>>
    BY <1>1, <2>1 DEF BareUntilMounted
  <2>3. CASE e = c
    BY <2>3 DEF Attach
  <2>4. CASE e # c /\ e # d
    BY <2>1, <2>2, <2>4 DEF Attach
  <2>5. CASE e = d
    BY <2>1, <2>5 DEF Attach
  <2> QED
    BY <2>3, <2>4, <2>5
<1>10. ClosedAtZero'
  BY <1>1, <1>3 DEF ClosedAtZero
<1> QED
  BY <1>6, <1>7, <1>8, <1>9, <1>10 DEF FInv

-----------------------------------------------------------------------------
Desc(n) == [file : 0 .. n, cursor : Nat, flags : SUBSET Flags]

\* One descriptor changes, and files may have been made.
LEMMA FdChanged ==
  ASSUME TypeOK, NEW t \in Tasks, NEW i \in Fds, NEW n \in Nat, n >= Len(file),
         NEW x \in Desc(n)
  PROVE  /\ [fd EXCEPT ![t][i] = x] \in [Tasks -> [Fds -> Desc(n)]]
         /\ [fd EXCEPT ![t][i] = x][t][i] = x
         /\ \A u \in Tasks, j \in Fds :
              u # t \/ j # i => [fd EXCEPT ![t][i] = x][u][j] = fd[u][j]
PROOF
<1>1. fd \in [Tasks -> [Fds -> Desc(Len(file))]] /\ Len(file) \in Nat
  BY DirType DEF TypeOK, Desc
<1>2. Desc(Len(file)) \subseteq Desc(n)
  <2>1. 0 .. Len(file) \subseteq 0 .. n
    BY <1>1
  <2> HIDE DEF Desc
  <2> QED
    BY <2>1 DEF Desc
<1> HIDE DEF Desc
<1>3. \A u \in Tasks, j \in Fds : fd[u][j] \in Desc(n)
  BY <1>1, <1>2
<1>4. fd \in [Tasks -> [Fds -> Desc(n)]]
  <2>1. \A u \in Tasks : fd[u] \in [Fds -> Desc(n)]
    BY <1>1, <1>3
  <2> QED
    BY <1>1, <2>1
<1> QED
  BY <1>4

LEMMA DescExcept ==
  ASSUME NEW n, NEW r \in Desc(n), NEW x
  PROVE  /\ r.file \in 0 .. n /\ r.cursor \in Nat /\ r.flags \in SUBSET Flags
         /\ [r EXCEPT !.cursor = x] = [file |-> r.file, cursor |-> x, flags |-> r.flags]
PROOF
<1>1. r \in [file : 0 .. n, cursor : Nat, flags : SUBSET Flags]
  BY DEF Desc
<1>2. r = [file |-> r.file, cursor |-> r.cursor, flags |-> r.flags]
  BY <1>1
<1>3. r.file \in 0 .. n /\ r.cursor \in Nat /\ r.flags \in SUBSET Flags
  BY <1>1
<1>4. [r EXCEPT !.cursor = x] = [file |-> r.file, cursor |-> x, flags |-> r.flags]
  BY <1>2
<1> QED
  BY <1>3, <1>4

\* The descriptors after a step that gives descriptor i of task t the file f and
\* the cursor x.
SetsFd(t, i, f, x, flags) ==
  /\ t \in Tasks /\ i \in Fds
  /\ f \in 0 .. Len(file') /\ x \in Nat /\ flags \in SUBSET Flags
  /\ f = None => x = 0
  /\ fd' = [fd EXCEPT ![t][i] = [file |-> f, cursor |-> x, flags |-> flags]]

LEMMA FdStep ==
  ASSUME FInv, NEW t, NEW i, NEW f, NEW x, NEW flags, SetsFd(t, i, f, x, flags),
         Len(file') \in Nat, Len(file') >= Len(file)
  PROVE  /\ fd' \in [Tasks -> [Fds -> Desc(Len(file'))]] /\ ClosedAtZero'
         /\ fd'[t][i] = [file |-> f, cursor |-> x, flags |-> flags]
         /\ \A u \in Tasks, j \in Fds : u # t \/ j # i => fd'[u][j] = fd[u][j]
PROOF
<1> DEFINE r == [file |-> f, cursor |-> x, flags |-> flags]
           n == Len(file')
<1>1. r \in Desc(n) /\ r.file = f /\ r.cursor = x
  BY DEF SetsFd, Desc
<1>2. t \in Tasks /\ i \in Fds /\ n \in Nat /\ n >= Len(file) /\ TypeOK
  BY DEF SetsFd, FInv
<1>3. fd' = [fd EXCEPT ![t][i] = r] /\ (f = None => x = 0)
  BY DEF SetsFd
<1> HIDE DEF r, n
<1>4. /\ fd' \in [Tasks -> [Fds -> Desc(n)]] /\ fd'[t][i] = r
      /\ \A u \in Tasks, j \in Fds : u # t \/ j # i => fd'[u][j] = fd[u][j]
  BY <1>1, <1>2, <1>3, FdChanged
<1>5. ClosedAtZero'
  <2> SUFFICES ASSUME NEW u \in Tasks, NEW j \in Fds, fd'[u][j].file = None
               PROVE  fd'[u][j].cursor = 0
    BY DEF ClosedAtZero
  <2>1. CASE u = t /\ j = i
    BY <1>1, <1>3, <1>4, <2>1
  <2>2. CASE ~(u = t /\ j = i)
    BY <1>4, <2>2 DEF FInv, ClosedAtZero
  <2> QED
    BY <2>1, <2>2
<1> QED
  BY <1>4, <1>5 DEF r, n

\* A step that leaves the directories and mountinfo alone.
LEMMA SameDirs ==
  ASSUME FInv, UNCHANGED <<dir, mounted>>, Len(file') = Len(file),
         file' \in Seq([name : Names, data : Seq(Bytes)]),
         fd' \in [Tasks -> [Fds -> Desc(Len(file'))]], ClosedAtZero'
  PROVE  FInv'
PROOF
<1>1. TypeOK'
  BY DEF FInv, TypeOK, Desc
<1>2. \A c : Places(c)' = Places(c)
  BY DEF Places
<1>3. \A c : IsMounted(c)' <=> IsMounted(c)
  BY DEF IsMounted
<1>4. TreeShape'
  <2>1. TreeShape /\ dir' = dir /\ mounted' = mounted
    BY DEF FInv
  <2> QED
    BY <1>2, <2>1 DEF TreeShape
<1>5. MountedOnce'
  BY DEF FInv, MountedOnce
<1>6. BareUntilMounted'
  BY <1>3 DEF FInv, BareUntilMounted
<1> QED
  BY <1>1, <1>4, <1>5, <1>6 DEF FInv

LEMMA FdType ==
  ASSUME FInv, NEW t \in Tasks, NEW i \in Fds
  PROVE  /\ fd[t][i] \in Desc(Len(file)) /\ Len(file) \in Nat
         /\ fd[t][i].file \in 0 .. Len(file) /\ fd[t][i].cursor \in Nat
         /\ fd[t][i].flags \in SUBSET Flags
         /\ fd[t][i].file # None => fd[t][i].file \in 1 .. Len(file)
PROOF
<1>1. fd[t][i] \in Desc(Len(file)) /\ Len(file) \in Nat
  BY DirType DEF FInv, TypeOK, Desc
<1>2. /\ fd[t][i].file \in 0 .. Len(file) /\ fd[t][i].cursor \in Nat
      /\ fd[t][i].flags \in SUBSET Flags
  BY <1>1 DEF Desc
<1> QED
  BY <1>1, <1>2 DEF None

LEMMA FileType ==
  ASSUME TypeOK, NEW f \in 1 .. Len(file)
  PROVE  /\ file[f] \in [name : Names, data : Seq(Bytes)]
         /\ file[f].name \in Names /\ file[f].data \in Seq(Bytes) /\ Len(file[f].data) \in Nat
PROOF
<1>1. file \in Seq([name : Names, data : Seq(Bytes)])
  BY DEF TypeOK
<1>2. file[f] \in [name : Names, data : Seq(Bytes)]
  BY <1>1, ElementOfSeq
<1> QED
  BY <1>2

\* The bytes of one file change.
LEMMA FileChanged ==
  ASSUME TypeOK, NEW f \in 1 .. Len(file), NEW b \in Seq(Bytes)
  PROVE  /\ [file EXCEPT ![f].data = b] \in Seq([name : Names, data : Seq(Bytes)])
         /\ Len([file EXCEPT ![f].data = b]) = Len(file)
         /\ [file EXCEPT ![f].data = b][f].data = b
         /\ \A g \in 1 .. Len(file) :
              /\ [file EXCEPT ![f].data = b][g].name = file[g].name
              /\ g # f => [file EXCEPT ![f].data = b][g] = file[g]
PROOF
<1> DEFINE R == [name : Names, data : Seq(Bytes)]
           r == [file[f] EXCEPT !.data = b]
<1>1. file \in Seq(R)
  BY DEF TypeOK
<1>2. r \in R /\ r.data = b /\ r.name = file[f].name
  BY FileType
<1>3. [file EXCEPT ![f].data = b] = [file EXCEPT ![f] = r]
  OBVIOUS
<1> HIDE DEF r, R
<1>4. /\ [file EXCEPT ![f] = r] \in Seq(R) /\ Len([file EXCEPT ![f] = r]) = Len(file)
      /\ \A g \in 1 .. Len(file) : [file EXCEPT ![f] = r][g] = IF g = f THEN r ELSE file[g]
  BY <1>1, <1>2, ExceptSeq
<1> QED
  BY <1>2, <1>3, <1>4 DEF R

-----------------------------------------------------------------------------
\* The effects of the calls on descriptors and files.
LEMMA ReadEffect ==
  ASSUME FInv, NEW t \in Tasks, NEW i \in Fds, NEW n \in 0 .. MaxSize, Read(t, i, n)
  PROVE  /\ UNCHANGED <<dir, mounted, file>>
         /\ \E x \in Nat : SetsFd(t, i, fd[t][i].file, x, fd[t][i].flags)
         /\ fd[t][i].file # None
PROOF
<1> DEFINE f == fd[t][i].file
           size == Len(file[f].data)
           count == IF n = 0 \/ n > size THEN size ELSE n
           x == fd[t][i].cursor + count
<1>1. /\ f # None /\ UNCHANGED <<dir, mounted, file>>
      /\ fd' = [fd EXCEPT ![t][i].cursor = x]
  BY DEF Read
<1>2. /\ fd[t][i] \in Desc(Len(file)) /\ f \in 1 .. Len(file) /\ fd[t][i].cursor \in Nat
      /\ fd[t][i].flags \in SUBSET Flags /\ f \in 0 .. Len(file)
  BY <1>1, FdType
<1>3. size \in Nat
  BY <1>2, FileType DEF FInv
<1>4. x \in Nat
  <2>1. n \in Nat
    BY FileSystemAssumption
  <2> HIDE DEF size, f
  <2>2. count \in Nat
    BY <1>3, <2>1
  <2> HIDE DEF count
  <2> QED
    BY <1>2, <2>2
<1> HIDE DEF x
<1>5. [fd[t][i] EXCEPT !.cursor = x] = [file |-> f, cursor |-> x, flags |-> fd[t][i].flags]
  BY <1>2, DescExcept
<1>6. fd' = [fd EXCEPT ![t][i] = [file |-> f, cursor |-> x, flags |-> fd[t][i].flags]]
  BY <1>1, <1>5
<1>7. SetsFd(t, i, f, x, fd[t][i].flags)
  BY <1>1, <1>2, <1>4, <1>6 DEF SetsFd
<1> QED
  BY <1>1, <1>4, <1>7

LEMMA LSeekEffect ==
  ASSUME FInv, NEW t \in Tasks, NEW i \in Fds, NEW n \in 0 .. MaxSize, LSeek(t, i, n)
  PROVE  /\ UNCHANGED <<dir, mounted, file>>
         /\ \E x \in Nat : SetsFd(t, i, fd[t][i].file, x, fd[t][i].flags)
         /\ fd[t][i].file # None
PROOF
<1> DEFINE f == fd[t][i].file
<1>1. f # None /\ UNCHANGED <<dir, mounted, file>>
  BY DEF LSeek
<1>2. /\ fd[t][i] \in Desc(Len(file)) /\ f \in 1 .. Len(file) /\ fd[t][i].cursor \in Nat
      /\ fd[t][i].flags \in SUBSET Flags /\ f \in 0 .. Len(file)
  BY <1>1, FdType
<1>3. Len(file[f].data) \in Nat /\ n \in Nat
  BY <1>2, FileType, FileSystemAssumption DEF FInv
<1>4. PICK from \in {0, fd[t][i].cursor, Len(file[f].data)} :
        fd' = [fd EXCEPT ![t][i].cursor = from + n]
  BY DEF LSeek
<1> DEFINE x == from + n
<1>5. x \in Nat
  BY <1>2, <1>3, <1>4
<1>6. fd' = [fd EXCEPT ![t][i].cursor = x]
  BY <1>4
<1> HIDE DEF x
<1>7. [fd[t][i] EXCEPT !.cursor = x] = [file |-> f, cursor |-> x, flags |-> fd[t][i].flags]
  BY <1>2, DescExcept
<1>8. fd' = [fd EXCEPT ![t][i] = [file |-> f, cursor |-> x, flags |-> fd[t][i].flags]]
  BY <1>6, <1>7
<1>9. SetsFd(t, i, f, x, fd[t][i].flags)
  BY <1>1, <1>2, <1>5, <1>8 DEF SetsFd
<1> QED
  BY <1>1, <1>5, <1>9

LEMMA CloseEffect ==
  ASSUME FInv, NEW t \in Tasks, NEW i \in Fds, Close(t, i)
  PROVE  UNCHANGED <<dir, mounted, file>> /\ SetsFd(t, i, None, 0, fd[t][i].flags)
PROOF
<1>1. 0 \in 0 .. Len(file) /\ fd[t][i].flags \in SUBSET Flags /\ 0 \in Nat
  BY FdType
<1> QED
  BY <1>1 DEF Close, SetsFd, None

LEMMA OverlayType ==
  ASSUME NEW b \in Seq(Bytes), NEW at \in Nat, NEW chunk \in Seq(Bytes)
  PROVE  Overlay(b, at, chunk) \in Seq(Bytes)
PROOF
<1> DEFINE end == at + Len(chunk)
           size == IF end > Len(b) THEN end ELSE Len(b)
           F == [k \in 1 .. size |->
                   IF k > at /\ k <= end THEN chunk[k - at]
                   ELSE IF k <= Len(b) THEN b[k] ELSE Gap]
<1>1. /\ Len(chunk) \in Nat /\ Len(b) \in Nat /\ Gap \in Bytes
      /\ \A k \in 1 .. Len(chunk) : chunk[k] \in Bytes
      /\ \A k \in 1 .. Len(b) : b[k] \in Bytes
  <2>1. Gap \in Bytes
    BY DEF Bytes
  <2> QED
    BY <2>1
<1>2. size \in Nat /\ end \in Nat
  BY <1>1
<1>3. ASSUME NEW k \in 1 .. size
      PROVE  (IF k > at /\ k <= end THEN chunk[k - at]
              ELSE IF k <= Len(b) THEN b[k] ELSE Gap) \in Bytes
  <2>1. CASE k > at /\ k <= end
    <3>1. k - at \in 1 .. Len(chunk)
      BY <1>1, <2>1
    <3> QED
      BY <1>1, <2>1, <3>1
  <2>2. CASE ~(k > at /\ k <= end) /\ k <= Len(b)
    <3>1. k \in 1 .. Len(b)
      BY <1>1, <1>2, <2>2
    <3> QED
      BY <1>1, <2>2, <3>1
  <2>3. CASE ~(k > at /\ k <= end) /\ ~(k <= Len(b))
    BY <1>1, <2>3
  <2> QED
    BY <2>1, <2>2, <2>3
<1>4. F \in [1 .. size -> Bytes]
  BY <1>3
<1>5. Overlay(b, at, chunk) = F
  BY DEF Overlay
<1> HIDE DEF F, size
<1>6. F \in Seq(Bytes)
  BY <1>2, <1>4, FunSeq
<1> QED
  BY <1>5, <1>6

LEMMA WriteEffect ==
  ASSUME FInv, NEW t \in Tasks, NEW i \in Fds, NEW chunk \in Chunks, Write(t, i, chunk)
  PROVE  LET f == fd[t][i].file
             at == fd[t][i].cursor
             b == Overlay(file[f].data, at, chunk)
         IN  /\ f \in 1 .. Len(file) /\ at \in Nat /\ at <= MaxSize
             /\ b \in Seq(Bytes)
             /\ UNCHANGED <<dir, mounted>> /\ file' = [file EXCEPT ![f].data = b]
             /\ \E x \in Nat : SetsFd(t, i, f, x, fd[t][i].flags)
PROOF
<1> DEFINE f == fd[t][i].file
           at == fd[t][i].cursor
           b == Overlay(file[f].data, at, chunk)
           x == at + Len(chunk)
<1>1. /\ f # None /\ x <= MaxSize
      /\ file' = [file EXCEPT ![f].data = b]
      /\ fd' = [fd EXCEPT ![t][i].cursor = x] /\ UNCHANGED <<dir, mounted>>
  BY DEF Write
<1>2. /\ fd[t][i] \in Desc(Len(file)) /\ f \in 1 .. Len(file) /\ at \in Nat
      /\ fd[t][i].flags \in SUBSET Flags /\ f \in 0 .. Len(file)
  BY <1>1, FdType
<1>3. chunk \in Seq(Bytes) /\ Len(chunk) \in Nat /\ MaxSize \in Nat
  BY FileSystemAssumption
<1>4. x \in Nat /\ at <= MaxSize
  BY <1>1, <1>2, <1>3
<1>5. b \in Seq(Bytes)
  BY <1>2, <1>3, FileType, OverlayType DEF FInv
<1> HIDE DEF x, b
<1>6. Len(file') = Len(file)
  BY <1>1, <1>2, <1>5, FileChanged DEF FInv
<1>7. [fd[t][i] EXCEPT !.cursor = x] = [file |-> f, cursor |-> x, flags |-> fd[t][i].flags]
  BY <1>2, DescExcept
<1>8. fd' = [fd EXCEPT ![t][i] = [file |-> f, cursor |-> x, flags |-> fd[t][i].flags]]
  BY <1>1, <1>7
<1>9. SetsFd(t, i, f, x, fd[t][i].flags)
  BY <1>1, <1>2, <1>4, <1>6, <1>8 DEF SetsFd
<1> QED
  BY <1>1, <1>2, <1>4, <1>5, <1>9 DEF b

LEMMA PathType ==
  ASSUME FInv, NEW path \in Paths
  PROVE  /\ path \in Seq(Names) /\ FileName(path) \in Names
         /\ Len(path) - 1 \in 0 .. Len(path) /\ Len(path) - 1 < Len(path)
         /\ Parent(path) \in 0 .. Len(dir)
         /\ Parent(path) # None => Parent(path) \in 1 .. Len(dir)
         /\ Parent(path) \in 2 .. Len(DeviceNames) => IsMounted(Parent(path))
PROOF
<1>1. path \in Seq(Names) /\ path # <<>>
  BY FileSystemAssumption
<1>2. FileName(path) \in Names /\ Len(path) - 1 \in 0 .. Len(path) /\ Len(path) - 1 < Len(path)
  BY <1>1 DEF FileName
<1>3. /\ Parent(path) \in 0 .. Len(dir)
      /\ Parent(path) \in 2 .. Len(DeviceNames) => IsMounted(Parent(path))
  BY <1>1, <1>2, WalkReaches DEF Parent
<1>4. Len(dir) \in Nat
  BY DirType DEF FInv
<1>5. Parent(path) # None => Parent(path) \in 1 .. Len(dir)
  BY <1>3, <1>4 DEF None
<1> QED
  BY <1>1, <1>2, <1>3, <1>5

LEMMA LookupType ==
  ASSUME FInv, NEW path \in Paths
  PROVE  Lookup(path) = None \/ Lookup(path) \in 1 .. Len(file)
PROOF
<1> DEFINE d == Parent(path)
           n == FileName(path)
<1>1. n \in Names /\ (d # None => d \in 1 .. Len(dir))
  BY PathType
<1>2. CASE d = None
  BY <1>2 DEF Lookup
<1>3. CASE d # None
  <2>1. Lookup(path) = Leaf(d, n)
    BY <1>3 DEF Lookup
  <2> HIDE DEF d, n
  <2>2. \/ LeafHits(d, n) = {} /\ Leaf(d, n) = None
        \/ Leaf(d, n) \in 1 .. Len(file)
    BY <1>1, <1>3, LeafIsFirst DEF LeafFacts, FInv
  <2> QED
    BY <2>1, <2>2
<1> QED
  BY <1>2, <1>3

LEMMA OpenEffect ==
  ASSUME FInv, NEW t \in Tasks, NEW path \in Paths, NEW flags \in OpenFlags,
         Open(t, path, flags)
  PROVE  LET f == Lookup(path) IN
         /\ f \in 1 .. Len(file)
         /\ UNCHANGED <<dir, mounted>>
         /\ \/ file' = file
            \/ "O_APPEND" \notin flags /\ file' = [file EXCEPT ![f].data = <<>>]
         /\ \E i \in Fds :
              /\ fd[t][i].file = None
              /\ SetsFd(t, i, f, IF "O_APPEND" \in flags THEN Len(file[f].data) ELSE 0, flags)
PROOF
<1> DEFINE f == Lookup(path)
           x == IF "O_APPEND" \in flags THEN Len(file[f].data) ELSE 0
<1>1. /\ f # None /\ UNCHANGED <<dir, mounted>>
      /\ file' = IF "O_TRUNC" \in flags /\ "O_APPEND" \notin flags
                 THEN [file EXCEPT ![f].data = <<>>] ELSE file
  BY DEF Open
<1>2. f \in 1 .. Len(file)
  BY <1>1, LookupType
<1>3. PICK i \in Fds :
        /\ Lowest(i, Free(t))
        /\ fd' = [fd EXCEPT ![t][i] = Opened(@, f, Len(file[f].data), flags)]
  BY DEF Open
<1> HIDE DEF f
<1>4. fd[t][i].file = None /\ fd[t][i].cursor = 0
  BY <1>3 DEF Lowest, Free, FInv, ClosedAtZero
<1>5. fd' = [fd EXCEPT ![t][i] = Opened(fd[t][i], f, Len(file[f].data), flags)]
  BY <1>3
<1>6. Opened(fd[t][i], f, Len(file[f].data), flags) = [file |-> f, cursor |-> x, flags |-> flags]
  BY <1>4 DEF Opened
<1>7. x \in Nat /\ flags \in SUBSET Flags
  BY <1>2, FileType, FileSystemAssumption DEF FInv
<1> HIDE DEF x
<1>8. Len(file') = Len(file) /\ Len(file) \in Nat
  <2>1. <<>> \in Seq(Bytes)
    OBVIOUS
  <2>2. Len(file) \in Nat
    BY DirType DEF FInv
  <2> QED
    BY <1>1, <1>2, <2>1, <2>2, FileChanged DEF FInv
<1>9. f \in 0 .. Len(file') /\ f # None
  BY <1>2, <1>8 DEF None
<1>10. SetsFd(t, i, f, x, flags)
  BY <1>3, <1>5, <1>6, <1>7, <1>9 DEF SetsFd
<1> QED
  BY <1>1, <1>2, <1>4, <1>10 DEF f, x

\* A file with this name is made in directory d.
Adds(d, n) ==
  /\ d \in 1 .. Len(dir) /\ n \in Names
  /\ d \in 2 .. Len(DeviceNames) => IsMounted(d)
  /\ Len(dir') = Len(dir) /\ dir' \in Seq(DirsOf(Len(dir), Len(file) + 1))
  /\ \A e \in 1 .. Len(dir) :
       /\ dir'[e].name = dir[e].name /\ dir'[e].childs = dir[e].childs
       /\ e # d => dir'[e].leaves = dir[e].leaves
  /\ dir'[d].leaves = Append(dir[d].leaves, Len(file) + 1)
  /\ Len(dir[d].leaves) < Slots
  /\ file' = Append(file, [name |-> n, data |-> <<>>]) /\ Len(file') = Len(file) + 1
  /\ file' \in Seq([name : Names, data : Seq(Bytes)])
  /\ mounted' = mounted

LEMMA CreateEffect ==
  ASSUME FInv, NEW t \in Tasks, NEW path \in Paths, NEW flags \in OpenFlags,
         Create(t, path, flags)
  PROVE  /\ Adds(Parent(path), FileName(path))
         /\ \E i \in Fds : /\ fd[t][i].file = None
                          /\ SetsFd(t, i, Len(file) + 1, 0, flags)
PROOF
<1> DEFINE d == Parent(path)
           m == Len(file) + 1
           N == [name |-> FileName(path), data |-> <<>>]
           lv == Append(dir[d].leaves, m)
           r == [dir[d] EXCEPT !.leaves = lv]
<1>1. /\ d # None /\ Len(dir[d].leaves) < Slots
      /\ file' = Append(file, N) /\ mounted' = mounted
      /\ dir' = [dir EXCEPT ![d].leaves = lv]
  BY DEF Create
<1>2. /\ d \in 1 .. Len(dir) /\ FileName(path) \in Names
      /\ d \in 2 .. Len(DeviceNames) => IsMounted(d)
  BY <1>1, PathType
<1>3. PICK i \in Fds : /\ Lowest(i, Free(t))
                       /\ fd' = [fd EXCEPT ![t][i] = Opened(@, m, 0, flags)]
  BY DEF Create
<1> HIDE DEF d
<1>4. TypeOK /\ Len(file) \in Nat /\ m \in Nat /\ Len(dir) \in Nat
  BY DirType DEF FInv
<1>5. file' \in Seq([name : Names, data : Seq(Bytes)]) /\ Len(file') = m
  <2>1. file \in Seq([name : Names, data : Seq(Bytes)])
    BY <1>4 DEF TypeOK
  <2>2. N \in [name : Names, data : Seq(Bytes)]
    BY <1>2
  <2> HIDE DEF N
  <2> QED
    BY <1>1, <2>1, <2>2, AppendProperties
<1>6. /\ dir[d] \in [name : Names, childs : Seq(1 .. Len(dir)), leaves : Seq(1 .. Len(file))]
      /\ dir[d].leaves \in Seq(1 .. Len(file))
  BY <1>2, <1>4, DirType
<1>7. lv \in Seq(1 .. m)
  <2>1. 1 .. Len(file) \subseteq 1 .. m /\ m \in 1 .. m
    BY <1>4
  <2> QED
    BY <1>6, <2>1, Appended
<1> HIDE DEF lv
<1>8. dir' = [dir EXCEPT ![d] = r]
  BY <1>1
<1>9. r = [name |-> dir[d].name, childs |-> dir[d].childs, leaves |-> lv]
  BY <1>6, RecordExceptLeaves
<1> HIDE DEF r
<1>10. r.name = dir[d].name /\ r.childs = dir[d].childs /\ r.leaves = lv
  BY <1>9
<1>11. r \in DirsOf(Len(dir), m)
  BY <1>6, <1>7, <1>9 DEF DirsOf
<1>12. dir \in Seq(DirsOf(Len(dir), m))
  <2>1. Len(dir) >= Len(dir) /\ m >= Len(file)
    BY <1>4
  <2> HIDE DEF m
  <2> QED
    BY <1>4, <2>1, DirWidens
<1>13. /\ dir' \in Seq(DirsOf(Len(dir), m)) /\ Len(dir') = Len(dir)
       /\ \A e \in 1 .. Len(dir) : e # d => dir'[e] = dir[e]
       /\ dir'[d] = r
  BY <1>2, <1>8, <1>11, <1>12, DirChanged
<1>14. Adds(d, FileName(path))
  BY <1>1, <1>2, <1>5, <1>10, <1>13 DEF Adds, lv
<1>15. fd[t][i].file = None /\ fd[t][i].cursor = 0
  BY <1>3 DEF Lowest, Free, FInv, ClosedAtZero
<1>16. Opened(fd[t][i], m, 0, flags) = [file |-> m, cursor |-> 0, flags |-> flags]
  BY <1>15 DEF Opened
<1>17. fd' = [fd EXCEPT ![t][i] = [file |-> m, cursor |-> 0, flags |-> flags]]
  BY <1>3, <1>16
<1>18. SetsFd(t, i, m, 0, flags)
  <2>1. m \in 0 .. Len(file') /\ 0 \in Nat /\ flags \in SUBSET Flags
    BY <1>4, <1>5, FileSystemAssumption
  <2> QED
    BY <1>3, <1>17, <2>1 DEF SetsFd
<1> QED
  BY <1>14, <1>15, <1>18 DEF d

-----------------------------------------------------------------------------
LEMMA FilesInit == Init => FInv
PROOF
<1> SUFFICES ASSUME Init PROVE FInv
  OBVIOUS
<1> DEFINE n == Len(DeviceNames)
<1>1. /\ n \in Nat /\ n >= 1 /\ n <= Slots /\ Slots \in Nat
      /\ \A d \in 1 .. n : DeviceNames[d] \in Names
  BY FileSystemAssumption
<1>2. dir = [d \in 1 .. n |-> Directory(DeviceNames[d])] /\ mounted = <<Root>> /\ file = <<>>
  BY DEF Init
<1> HIDE DEF n
<1>3. dir \in [1 .. n -> DirsOf(n, 0)]
  BY <1>1, <1>2 DEF DirsOf, Directory
<1>4. dir \in Seq(DirsOf(n, 0)) /\ Len(dir) = n
  BY <1>1, <1>3, FunSeq
<1>5. \A d \in 1 .. n : dir[d].childs = <<>> /\ dir[d].leaves = <<>>
  BY <1>2 DEF Directory
<1>6. /\ fd \in [Tasks -> [Fds -> Desc(0)]]
      /\ \A t \in Tasks, i \in Fds : fd[t][i].cursor = 0
  BY DEF Init, NoDescriptor, None, Desc
<1>7. mounted \in Seq(1 .. n) /\ Len(mounted) = 1 /\ DOMAIN mounted = 1 .. 1 /\ mounted[1] = Root
  BY <1>1, <1>2 DEF Root
<1>8. TypeOK
  <2>1. file \in Seq([name : Names, data : Seq(Bytes)]) /\ Len(file) = 0
    BY <1>2
  <2>2. \A d \in 1 .. n : Len(dir[d].childs) <= Slots /\ Len(dir[d].leaves) <= Slots
    BY <1>1, <1>5
  <2>3. Len(mounted) \in 1 .. Slots
    BY <1>1, <1>7
  <2> QED
    BY <1>1, <1>4, <1>6, <1>7, <2>1, <2>2, <2>3 DEF TypeOK, DirsOf, Desc, n
<1>9. \A c : Places(c) = {}
  BY <1>4, <1>5 DEF Places
<1>10. TreeShape
  <2> SUFFICES ASSUME NEW c \in 2 .. Len(dir)
               PROVE  c <= Len(DeviceNames) /\ \A i \in DOMAIN mounted : mounted[i] # c
    BY <1>9 DEF TreeShape
  <2>1. \A i \in DOMAIN mounted : mounted[i] = 1
    BY <1>7 DEF Root
  <2> QED
    BY <1>1, <1>4, <2>1 DEF n
<1>11. MountedOnce
  BY <1>7 DEF MountedOnce
<1>12. BareUntilMounted
  BY <1>1, <1>5 DEF BareUntilMounted, n
<1>13. ClosedAtZero
  BY <1>6 DEF ClosedAtZero
<1> QED
  BY <1>8, <1>10, <1>11, <1>12, <1>13 DEF FInv

\* What a step does to the directories: nothing, or one of these.
LEMMA CreateKeeps ==
  ASSUME FInv, NEW t \in Tasks, NEW path \in Paths, NEW flags \in OpenFlags,
         Create(t, path, flags)
  PROVE  FInv'
PROOF
<1> DEFINE d == Parent(path)
           n == FileName(path)
<1>1. Adds(d, n)
  BY CreateEffect
<1>2. PICK i \in Fds : SetsFd(t, i, Len(file) + 1, 0, flags)
  BY CreateEffect
<1> HIDE DEF d, n
<1>3. /\ TypeOK /\ Len(file) \in Nat /\ Len(file') = Len(file) + 1 /\ Len(dir') = Len(dir)
      /\ mounted' = mounted
  BY <1>1, DirType DEF FInv, Adds
<1>4. /\ fd' \in [Tasks -> [Fds -> Desc(Len(file'))]] /\ ClosedAtZero'
  <2>1. Len(file') \in Nat /\ Len(file') >= Len(file)
    BY <1>3
  <2> QED
    BY <1>2, <2>1, FdStep
<1>5. \A e \in 1 .. Len(dir) : dir'[e].childs = dir[e].childs
  BY <1>1 DEF Adds
<1>6. TypeOK'
  <2>1. dir' \in Seq([name : Names, childs : Seq(1 .. Len(dir')), leaves : Seq(1 .. Len(file'))])
    BY <1>1, <1>3 DEF Adds, DirsOf
  <2>2. ASSUME NEW e \in 1 .. Len(dir)
        PROVE  Len(dir'[e].childs) <= Slots /\ Len(dir'[e].leaves) <= Slots
    <3>1. Len(dir'[e].childs) <= Slots
      BY <1>3, <1>5 DEF TypeOK
    <3>2. CASE e # d
      BY <1>1, <1>3, <3>1, <3>2 DEF Adds, TypeOK
    <3>3. CASE e = d
      <4>1. dir[d].leaves \in Seq(1 .. Len(file)) /\ Len(dir[d].leaves) \in Nat
        BY <1>3, <3>3, DirType
      <4>2. 1 .. Len(file) \subseteq 1 .. Len(file) + 1 /\ Len(file) + 1 \in 1 .. Len(file) + 1
        BY <1>3
      <4>3. Len(Append(dir[d].leaves, Len(file) + 1)) = Len(dir[d].leaves) + 1
        BY <4>1, <4>2, Appended
      <4>4. /\ dir'[d].leaves = Append(dir[d].leaves, Len(file) + 1)
            /\ Len(dir[d].leaves) < Slots /\ Slots \in Nat
        BY <1>1, FileSystemAssumption DEF Adds
      <4> QED
        BY <3>1, <3>3, <4>1, <4>3, <4>4
    <3> QED
      BY <3>2, <3>3
  <2>3. file' \in Seq([name : Names, data : Seq(Bytes)])
    BY <1>1 DEF Adds
  <2>4. /\ mounted' \in Seq(1 .. Len(DeviceNames)) /\ Len(mounted') \in 1 .. Slots
        /\ Len(dir') >= Len(DeviceNames)
    BY <1>3 DEF TypeOK
  <2> QED
    BY <1>3, <1>4, <2>1, <2>2, <2>3, <2>4 DEF TypeOK, Desc
<1>7. \A c : Places(c)' = Places(c)
  <2> SUFFICES ASSUME NEW c PROVE Places(c)' = Places(c)
    OBVIOUS
  <2> DEFINE E == {p \in (1 .. Len(dir)) \X (1 .. Slots) :
                     p[2] \in DOMAIN dir'[p[1]].childs /\ dir'[p[1]].childs[p[2]] = c}
  <2>1. Places(c)' = E
    BY <1>3 DEF Places
  <2>2. \A p \in (1 .. Len(dir)) \X (1 .. Slots) : dir'[p[1]].childs = dir[p[1]].childs
    BY <1>5
  <2>3. E = Places(c)
    BY <2>2 DEF Places
  <2> QED
    BY <2>1, <2>3
<1>8. TreeShape'
  BY <1>3, <1>7 DEF FInv, TreeShape
<1>9. MountedOnce' /\ \A c : IsMounted(c)' <=> IsMounted(c)
  BY <1>3 DEF FInv, MountedOnce, IsMounted
<1>10. BareUntilMounted'
  <2> SUFFICES ASSUME NEW c \in 2 .. Len(DeviceNames), ~ IsMounted(c)
               PROVE  dir'[c].childs = <<>> /\ dir'[c].leaves = <<>>
    BY <1>9 DEF BareUntilMounted
  <2>1. c # d
    BY <1>1 DEF Adds
  <2>2. c \in 1 .. Len(dir)
    <3>1. Len(DeviceNames) \in Nat /\ Len(dir) \in Nat /\ Len(dir) >= Len(DeviceNames)
      BY <1>3, DirType, FileSystemAssumption DEF TypeOK
    <3> QED
      BY <3>1
  <2> QED
    BY <1>1, <2>1, <2>2 DEF Adds, FInv, BareUntilMounted
<1> QED
  BY <1>4, <1>6, <1>8, <1>9, <1>10 DEF FInv

LEMMA OpenKeeps ==
  ASSUME FInv, NEW t \in Tasks, NEW path \in Paths, NEW flags \in OpenFlags,
         Open(t, path, flags)
  PROVE  FInv' /\ Len(file') = Len(file)
PROOF
<1> DEFINE f == Lookup(path)
           x == IF "O_APPEND" \in flags THEN Len(file[f].data) ELSE 0
<1>1. /\ f \in 1 .. Len(file) /\ UNCHANGED <<dir, mounted>>
      /\ file' = file \/ file' = [file EXCEPT ![f].data = <<>>]
  BY OpenEffect
<1>2. PICK i \in Fds : SetsFd(t, i, f, x, flags)
  BY OpenEffect
<1> HIDE DEF f, x
<1>3. TypeOK /\ Len(file) \in Nat /\ <<>> \in Seq(Bytes)
  BY DirType DEF FInv
<1>4. file' \in Seq([name : Names, data : Seq(Bytes)]) /\ Len(file') = Len(file)
  <2>1. CASE file' = file
    BY <1>3, <2>1 DEF TypeOK
  <2>2. CASE file' = [file EXCEPT ![f].data = <<>>]
    BY <1>1, <1>3, <2>2, FileChanged
  <2> QED
    BY <1>1, <2>1, <2>2
<1>5. fd' \in [Tasks -> [Fds -> Desc(Len(file'))]] /\ ClosedAtZero'
  <2>1. Len(file') \in Nat /\ Len(file') >= Len(file)
    BY <1>3, <1>4
  <2> QED
    BY <1>2, <2>1, FdStep
<1> QED
  BY <1>1, <1>4, <1>5, SameDirs

LEMMA WriteKeeps ==
  ASSUME FInv, NEW t \in Tasks, NEW i \in Fds, NEW chunk \in Chunks, Write(t, i, chunk)
  PROVE  FInv' /\ Len(file') = Len(file)
PROOF
<1> DEFINE f == fd[t][i].file
           b == Overlay(file[f].data, fd[t][i].cursor, chunk)
<1>1. /\ f \in 1 .. Len(file) /\ b \in Seq(Bytes)
      /\ UNCHANGED <<dir, mounted>> /\ file' = [file EXCEPT ![f].data = b]
      /\ \E x \in Nat : SetsFd(t, i, f, x, fd[t][i].flags)
  BY WriteEffect
<1> HIDE DEF f, b
<1>2. TypeOK /\ Len(file) \in Nat
  BY DirType DEF FInv
<1>3. file' \in Seq([name : Names, data : Seq(Bytes)]) /\ Len(file') = Len(file)
  BY <1>1, <1>2, FileChanged
<1>4. fd' \in [Tasks -> [Fds -> Desc(Len(file'))]] /\ ClosedAtZero'
  <2>1. Len(file') \in Nat /\ Len(file') >= Len(file)
    BY <1>2, <1>3
  <2>2. PICK x \in Nat : SetsFd(t, i, f, x, fd[t][i].flags)
    BY <1>1
  <2> QED
    BY <2>1, <2>2, FdStep
<1> QED
  BY <1>1, <1>3, <1>4, SameDirs

LEMMA SameFile ==
  ASSUME FInv, UNCHANGED <<dir, mounted, file>>,
         NEW t, NEW i, NEW f, NEW x, NEW flags, SetsFd(t, i, f, x, flags)
  PROVE  FInv'
PROOF
<1>1. TypeOK /\ Len(file) \in Nat
  BY DirType DEF FInv
<1>2. file' \in Seq([name : Names, data : Seq(Bytes)]) /\ Len(file') = Len(file)
  BY <1>1 DEF TypeOK
<1>3. fd' \in [Tasks -> [Fds -> Desc(Len(file'))]] /\ ClosedAtZero'
  <2>1. Len(file') \in Nat /\ Len(file') >= Len(file)
    BY <1>1, <1>2
  <2> QED
    BY <2>1, FdStep
<1> QED
  BY <1>2, <1>3, SameDirs

LEMMA ExitKeeps ==
  ASSUME FInv, NEW t \in Tasks, Exit(t)
  PROVE  FInv'
PROOF
<1>1. TypeOK /\ Len(file) \in Nat /\ UNCHANGED <<dir, mounted, file>>
  BY DirType DEF FInv, Exit
<1>2. file' \in Seq([name : Names, data : Seq(Bytes)]) /\ Len(file') = Len(file)
  BY <1>1 DEF TypeOK
<1>3. NoDescriptor \in Desc(Len(file)) /\ NoDescriptor.cursor = 0
  BY <1>1 DEF NoDescriptor, Desc, None
<1>4. fd \in [Tasks -> [Fds -> Desc(Len(file))]]
  BY <1>1 DEF TypeOK, Desc
<1>5. fd' = [fd EXCEPT ![t] = [i \in Fds |-> NoDescriptor]]
  BY DEF Exit
<1>6. ClosedAtZero'
  BY <1>3, <1>4, <1>5 DEF ClosedAtZero, FInv
<1>7. fd' \in [Tasks -> [Fds -> Desc(Len(file'))]]
  BY <1>2, <1>3, <1>4, <1>5
<1> QED
  BY <1>1, <1>2, <1>6, <1>7, SameDirs

LEMMA MkDirRecords ==
  ASSUME FInv, NEW path \in DirPaths, MkDir(path)
  PROVE  Records(Len(dir) + 1)
PROOF
  BY MkDirAttaches DEF Records

LEMMA MountRecords ==
  ASSUME FInv, NEW c \in 2 .. Len(DeviceNames), NEW path \in MountPaths, Mount(c, path)
  PROVE  Records(c)
PROOF
  BY MountAttaches, RoomToMount DEF Records

LEMMA FilesStep == FInv /\ [Next]_vars => FInv'
PROOF
<1> SUFFICES ASSUME FInv, [Next]_vars PROVE FInv'
  OBVIOUS
<1>1. CASE \E path \in DirPaths : MkDir(path)
  BY <1>1, MkDirAttaches, MkDirRecords, AttachKeeps
<1>2. CASE \E c \in 2 .. Len(DeviceNames), path \in MountPaths : Mount(c, path)
  BY <1>2, MountAttaches, MountRecords, AttachKeeps
<1>3. CASE \E t \in Tasks, path \in Paths, flags \in OpenFlags :
             Create(t, path, flags) \/ Open(t, path, flags)
  BY <1>3, CreateKeeps, OpenKeeps
<1>4. ASSUME NEW t \in Tasks, NEW i \in Fds, NEW n \in 0 .. MaxSize,
             Read(t, i, n) \/ LSeek(t, i, n)
      PROVE  FInv'
  <2>1. /\ UNCHANGED <<dir, mounted, file>>
        /\ \E x \in Nat : SetsFd(t, i, fd[t][i].file, x, fd[t][i].flags)
    BY <1>4, ReadEffect, LSeekEffect
  <2> QED
    BY <2>1, SameFile
<1>5. ASSUME NEW t \in Tasks, NEW i \in Fds, NEW chunk \in Chunks, Write(t, i, chunk)
      PROVE  FInv'
  BY <1>5, WriteKeeps
<1>6. ASSUME NEW t \in Tasks, NEW i \in Fds, Close(t, i)
      PROVE  FInv'
  BY <1>6, CloseEffect, SameFile
<1>7. CASE \E t \in Tasks : Exit(t)
  BY <1>7, ExitKeeps
<1>8. CASE UNCHANGED vars
  <2>1. UNCHANGED <<dir, mounted>> /\ file' = file /\ fd' = fd
    BY <1>8 DEF vars
  <2>2. file' \in Seq([name : Names, data : Seq(Bytes)]) /\ Len(file') = Len(file)
    BY <2>1 DEF FInv, TypeOK
  <2>3. fd' \in [Tasks -> [Fds -> Desc(Len(file'))]] /\ ClosedAtZero'
    BY <2>1 DEF FInv, TypeOK, Desc, ClosedAtZero
  <2> QED
    BY <2>1, <2>2, <2>3, SameDirs
<1> QED
  BY <1>1, <1>2, <1>3, <1>4, <1>5, <1>6, <1>7, <1>8 DEF Next

\* The properties of the tree, together with what mountinfo and the closed
\* descriptors add, are inductive.
THEOREM FilesInvariant == Spec => []FInv
PROOF
  BY FilesInit, FilesStep, PTL DEF Spec

\* Directories and descriptors name what exists, and arrays fit their slots.
THEOREM FilesTypeCorrect == Spec => []TypeOK
PROOF
<1>1. FInv => TypeOK
  BY DEF FInv
<1> QED
  BY FilesInvariant, <1>1, PTL

\* The directories are a tree, whatever is made and mounted.
THEOREM DirectoriesAreTree == Spec => []TreeShape
PROOF
<1>1. FInv => TreeShape
  BY DEF FInv
<1> QED
  BY FilesInvariant, <1>1, PTL

-----------------------------------------------------------------------------
\* No closed descriptor is opened and no file is made.
OpensNothing ==
  /\ Len(file') = Len(file)
  /\ \A u \in Tasks, j \in Fds : fd[u][j].file = None => fd'[u][j].file = None

LEMMA KeepsClosed ==
  ASSUME FInv, Len(file') = Len(file), NEW t, NEW i, NEW f, NEW x, NEW flags,
         SetsFd(t, i, f, x, flags), f = None \/ f = fd[t][i].file
  PROVE  OpensNothing
PROOF
<1>1. Len(file') \in Nat /\ Len(file') >= Len(file)
  BY DirType DEF FInv
<1>2. /\ fd'[t][i] = [file |-> f, cursor |-> x, flags |-> flags]
      /\ \A u \in Tasks, j \in Fds : u # t \/ j # i => fd'[u][j] = fd[u][j]
  BY <1>1, FdStep
<1>3. fd'[t][i].file = f
  BY <1>2
<1> SUFFICES ASSUME NEW u \in Tasks, NEW j \in Fds, fd[u][j].file = None
             PROVE  fd'[u][j].file = None
  BY DEF OpensNothing
<1>4. CASE u = t /\ j = i
  BY <1>3, <1>4
<1>5. CASE ~ (u = t /\ j = i)
  BY <1>2, <1>5
<1> QED
  BY <1>4, <1>5

LEMMA OnlyOpenOpens ==
  ASSUME FInv, [Next]_vars
  PROVE  \/ \E t \in Tasks, path \in Paths, flags \in OpenFlags :
              Create(t, path, flags) \/ Open(t, path, flags)
         \/ OpensNothing
PROOF
<1>1. CASE \E path \in DirPaths : MkDir(path)
  BY <1>1, MkDirAttaches DEF Attach, OpensNothing
<1>2. CASE \E c \in 2 .. Len(DeviceNames), path \in MountPaths : Mount(c, path)
  BY <1>2, MountAttaches DEF Attach, OpensNothing
<1>3. ASSUME NEW t \in Tasks, NEW i \in Fds, NEW n \in 0 .. MaxSize,
             Read(t, i, n) \/ LSeek(t, i, n)
      PROVE  OpensNothing
  <2>1. /\ Len(file') = Len(file)
        /\ \E x \in Nat : SetsFd(t, i, fd[t][i].file, x, fd[t][i].flags)
    BY <1>3, ReadEffect, LSeekEffect
  <2>2. PICK x \in Nat : SetsFd(t, i, fd[t][i].file, x, fd[t][i].flags)
    BY <2>1
  <2> QED
    BY <2>1, <2>2, KeepsClosed
<1>4. ASSUME NEW t \in Tasks, NEW i \in Fds, NEW chunk \in Chunks, Write(t, i, chunk)
      PROVE  OpensNothing
  <2>1. PICK x \in Nat : SetsFd(t, i, fd[t][i].file, x, fd[t][i].flags)
    BY <1>4, WriteEffect
  <2>2. Len(file') = Len(file)
    BY <1>4, WriteKeeps
  <2> QED
    BY <2>1, <2>2, KeepsClosed
<1>5. ASSUME NEW t \in Tasks, NEW i \in Fds, Close(t, i)
      PROVE  OpensNothing
  <2>1. Len(file') = Len(file) /\ SetsFd(t, i, None, 0, fd[t][i].flags)
    BY <1>5, CloseEffect
  <2> QED
    BY <2>1, KeepsClosed
<1>6. ASSUME NEW t \in Tasks, Exit(t)
      PROVE  OpensNothing
  <2>1. fd \in [Tasks -> [Fds -> Desc(Len(file))]]
    BY DEF FInv, TypeOK, Desc
  <2>2. /\ fd' = [fd EXCEPT ![t] = [i \in Fds |-> NoDescriptor]]
        /\ Len(file') = Len(file) /\ NoDescriptor.file = None
    BY <1>6 DEF Exit, NoDescriptor
  <2> QED
    BY <2>1, <2>2 DEF OpensNothing
<1>7. CASE UNCHANGED vars
  BY <1>7 DEF vars, OpensNothing
<1> QED
  BY <1>1, <1>2, <1>3, <1>4, <1>5, <1>6, <1>7 DEF Next

\* Opening: the descriptor that was closed and no longer is.
LEMMA OpenStarts ==
  ASSUME FInv, [Next]_vars, NEW u \in Tasks, NEW j \in Fds,
         fd[u][j].file = None, fd'[u][j].file # None
  PROVE  fd'[u][j].cursor =
           IF "O_APPEND" \in fd'[u][j].flags
           THEN Len(file'[fd'[u][j].file].data) ELSE 0
PROOF
<1>1. PICK t \in Tasks, path \in Paths, flags \in OpenFlags :
        Create(t, path, flags) \/ Open(t, path, flags)
  BY OnlyOpenOpens DEF OpensNothing
<1>2. Len(file) \in Nat
  BY DirType DEF FInv
<1>3. ASSUME NEW i, NEW f, NEW x, SetsFd(t, i, f, x, flags), Len(file') >= Len(file),
             Len(file') \in Nat,
             x = IF "O_APPEND" \in flags THEN Len(file'[f].data) ELSE 0
      PROVE  fd'[u][j].cursor =
               IF "O_APPEND" \in fd'[u][j].flags
               THEN Len(file'[fd'[u][j].file].data) ELSE 0
  <2>1. /\ fd'[t][i] = [file |-> f, cursor |-> x, flags |-> flags]
        /\ (u # t \/ j # i => fd'[u][j] = fd[u][j])
    BY <1>3, FdStep
  <2>2. u = t /\ j = i
    BY <2>1
  <2>3. fd'[u][j].file = f /\ fd'[u][j].cursor = x /\ fd'[u][j].flags = flags
    BY <2>1, <2>2
  <2> QED
    BY <1>3, <2>3
<1>4. CASE Create(t, path, flags)
  <2>1. PICK i \in Fds : SetsFd(t, i, Len(file) + 1, 0, flags)
    BY <1>4, CreateEffect
  <2>2. file' = Append(file, [name |-> FileName(path), data |-> <<>>])
    BY <1>4 DEF Create
  <2>3. file'[Len(file) + 1].data = <<>> /\ Len(file') = Len(file) + 1
    BY <1>2, <2>2 DEF FInv, TypeOK
  <2>4. Len(file') >= Len(file) /\ Len(file') \in Nat
    BY <1>2, <2>3
  <2>5. 0 = IF "O_APPEND" \in flags THEN Len(file'[Len(file) + 1].data) ELSE 0
    BY <2>3
  <2> QED
    BY <1>3, <2>1, <2>4, <2>5
<1>5. CASE Open(t, path, flags)
  <2> DEFINE f == Lookup(path)
             x == IF "O_APPEND" \in flags THEN Len(file[f].data) ELSE 0
  <2>1. PICK i \in Fds : SetsFd(t, i, f, x, flags)
    BY <1>5, OpenEffect
  <2>2. file' = file \/ "O_APPEND" \notin flags
    BY <1>5, OpenEffect
  <2>3. Len(file') >= Len(file) /\ Len(file') \in Nat
    BY <1>2, <1>5, OpenKeeps
  <2> HIDE DEF f
  <2>4. x = IF "O_APPEND" \in flags THEN Len(file'[f].data) ELSE 0
    BY <2>2
  <2> HIDE DEF x
  <2> QED
    BY <1>3, <2>1, <2>3, <2>4
<1> QED
  BY <1>1, <1>4, <1>5

\* A descriptor starts at the first byte or, with O_APPEND, at the end.
THEOREM DescriptorsStart == Spec => OpensAtStart
PROOF
<1>1. FInv /\ [Next]_vars =>
        [\A t \in Tasks, i \in Fds :
           fd[t][i].file = None /\ fd'[t][i].file # None =>
             fd'[t][i].cursor =
               IF "O_APPEND" \in fd'[t][i].flags
               THEN Len(file'[fd'[t][i].file].data) ELSE 0]_vars
  BY OpenStarts
<1> QED
  BY FilesInvariant, <1>1, PTL DEF Spec, OpensAtStart

\* Nobody makes a file without getting a descriptor for it.
THEOREM MakerHolds == Spec => CreatedIsOpen
PROOF
<1>1. ASSUME FInv, [Next]_vars, Len(file') # Len(file)
      PROVE  \E t \in Tasks, i \in Fds :
               fd[t][i].file = None /\ fd'[t][i].file = Len(file')
  <2>1. PICK t \in Tasks, path \in Paths, flags \in OpenFlags : Create(t, path, flags)
    BY <1>1, OnlyOpenOpens, OpenKeeps DEF OpensNothing
  <2>2. PICK i \in Fds : fd[t][i].file = None /\ SetsFd(t, i, Len(file) + 1, 0, flags)
    BY <1>1, <2>1, CreateEffect
  <2>3. Len(file') = Len(file) + 1 /\ Len(file) \in Nat
    BY <1>1, <2>1, CreateEffect, DirType DEF Adds, FInv
  <2>4. Len(file') >= Len(file) /\ Len(file') \in Nat
    BY <2>3
  <2>5. fd'[t][i] = [file |-> Len(file) + 1, cursor |-> 0, flags |-> flags]
    BY <1>1, <2>2, <2>4, FdStep
  <2>6. fd'[t][i].file = Len(file')
    BY <2>3, <2>5
  <2> QED
    BY <2>2, <2>6
<1>2. FInv /\ [Next]_vars =>
        [file' # file /\ Len(file') # Len(file) =>
           \E t \in Tasks, i \in Fds :
             fd[t][i].file = None /\ fd'[t][i].file = Len(file')]_vars
  BY <1>1
<1> QED
  BY FilesInvariant, <1>2, PTL DEF Spec, CreatedIsOpen

-----------------------------------------------------------------------------
\* A place behind the others does not change which is the first.
LEMMA FirstOfMore ==
  ASSUME NEW k \in Nat, NEW S \in SUBSET (1 .. k), NEW T,
         S \subseteq T, T \subseteq S \union {k + 1}
  PROVE  /\ \A i : Lowest(i, S) => Lowest(i, T)
         /\ S = {} => T = {} \/ Lowest(k + 1, T)
PROOF
<1>1. ASSUME NEW i, Lowest(i, S) PROVE Lowest(i, T)
  <2>1. i \in 1 .. k /\ \A j \in S : i <= j
    BY <1>1 DEF Lowest
  <2>2. i <= k + 1
    BY <2>1
  <2>3. \A j \in T : i <= j
    BY <2>1, <2>2
  <2> QED
    BY <1>1, <2>3 DEF Lowest
<1>2. S = {} /\ T # {} => T = {k + 1}
  OBVIOUS
<1>3. Lowest(k + 1, {k + 1})
  BY DEF Lowest
<1> QED
  BY <1>1, <1>2, <1>3

\* What a directory finds under a name when another one is put behind its
\* last, and when none is.
LEMMA ChildKept ==
  ASSUME TypeOK, TypeOK', NEW e \in 1 .. Len(dir), NEW n \in Names, NEW c,
         Len(dir') >= Len(dir),
         \A g \in 1 .. Len(dir) : dir'[g].name = dir[g].name,
         \/ dir'[e].childs = dir[e].childs
         \/ c \in 1 .. Len(dir') /\ dir'[e].childs = Append(dir[e].childs, c)
  PROVE  /\ Child(e, n) # None => Child(e, n)' = Child(e, n)
         /\ Child(e, n) = None => Child(e, n)' \in {None, c}
         /\ dir'[e].childs = dir[e].childs => Child(e, n)' = Child(e, n)
PROOF
<1> DEFINE k == Len(dir[e].childs)
           S == ChildHits(e, n)
           T == ChildHits(e, n)'
           more == c \in 1 .. Len(dir') /\ dir'[e].childs = Append(dir[e].childs, c)
<1>1. /\ k \in Nat /\ DOMAIN dir[e].childs = 1 .. k /\ e \in 1 .. Len(dir') /\ Len(dir) \in Nat
      /\ dir[e].childs \in Seq(1 .. Len(dir)) /\ 1 .. Len(dir) \subseteq 1 .. Len(dir')
      /\ \A i \in 1 .. k : dir[e].childs[i] \in 1 .. Len(dir)
  <2>1. /\ k \in Nat /\ DOMAIN dir[e].childs = 1 .. k /\ Len(dir) \in Nat
        /\ dir[e].childs \in Seq(1 .. Len(dir))
        /\ \A i \in 1 .. k : dir[e].childs[i] \in 1 .. Len(dir)
    BY DirType
  <2>2. Len(dir') \in Nat
    BY DEF TypeOK
  <2> QED
    BY <2>1, <2>2
<1>2. /\ DOMAIN dir'[e].childs = 1 .. k \/ (more /\ DOMAIN dir'[e].childs = 1 .. k + 1)
      /\ \A i \in 1 .. k : dir'[e].childs[i] = dir[e].childs[i]
      /\ more => dir'[e].childs[k + 1] = c
  <2>1. CASE dir'[e].childs = dir[e].childs /\ ~ more
    BY <1>1, <2>1
  <2>2. CASE more
    BY <1>1, <2>2, Appended
  <2> QED
    BY <2>1, <2>2
<1>3. /\ S = {i \in 1 .. k : dir[dir[e].childs[i]].name \in Begins[n]}
      /\ T = {i \in DOMAIN dir'[e].childs : dir'[dir'[e].childs[i]].name \in Begins[n]}
  BY <1>1 DEF ChildHits
<1>4. \A i \in 1 .. k : dir'[dir'[e].childs[i]].name = dir[dir[e].childs[i]].name
  BY <1>1, <1>2
<1>5. S \in SUBSET (1 .. k) /\ S \subseteq T /\ T \subseteq S \union {k + 1}
  <2> HIDE DEF k, S, T, more
  <2>1. DOMAIN dir'[e].childs = 1 .. k \/ DOMAIN dir'[e].childs = (1 .. k) \union {k + 1}
    BY <1>1, <1>2
  <2> QED
    BY <1>3, <1>4, <2>1
<1>6. /\ \A i : Lowest(i, S) => Lowest(i, T)
      /\ S = {} => T = {} \/ Lowest(k + 1, T)
  <2> HIDE DEF k, S, T
  <2> QED
    BY <1>1, <1>5, FirstOfMore
<1>7. /\ T = {} => Child(e, n)' = None
      /\ \A i \in DOMAIN dir'[e].childs : Lowest(i, T) => Child(e, n)' = dir'[e].childs[i]
  BY <1>1, FirstNext DEF ChildFacts
<1>8. /\ S = {} => Child(e, n) = None
      /\ S # {} => \E i \in 1 .. k : Lowest(i, S)
      /\ \A i \in 1 .. k : Lowest(i, S) => Child(e, n) = dir[e].childs[i] /\ Child(e, n) # None
  <2>1. 0 \notin 1 .. Len(dir)
    BY <1>1
  <2> QED
    BY <1>1, <2>1, ChildIsFirst DEF ChildFacts, None
<1> HIDE DEF S, T, k
<1>9. CASE S # {}
  <2>1. PICK i \in 1 .. k : Lowest(i, S)
    BY <1>8, <1>9
  <2>2. Lowest(i, T) /\ i \in DOMAIN dir'[e].childs
    BY <1>1, <1>2, <1>6, <2>1
  <2> QED
    BY <1>2, <1>7, <1>8, <2>1, <2>2
<1>10. CASE S = {} /\ T = {}
  BY <1>7, <1>8, <1>10
<1>11. CASE S = {} /\ T # {}
  <2>1. Lowest(k + 1, T)
    BY <1>6, <1>11
  <2>2. k + 1 \in DOMAIN dir'[e].childs
    BY <1>3, <2>1 DEF Lowest
  <2>3. more /\ dir'[e].childs # dir[e].childs
    <3>1. k + 1 \notin 1 .. k
      BY <1>1
    <3> QED
      BY <1>1, <1>2, <2>2, <3>1
  <2>4. Child(e, n)' = c
    BY <1>2, <1>7, <2>1, <2>2, <2>3
  <2> QED
    BY <1>8, <1>11, <2>3, <2>4
<1> QED
  BY <1>9, <1>10, <1>11

\* The same for files.
LEMMA LeafKept ==
  ASSUME TypeOK, TypeOK', NEW e \in 1 .. Len(dir), NEW n \in Names, NEW c,
         Len(file') >= Len(file), Len(dir') >= Len(dir),
         \A g \in 1 .. Len(file) : file'[g].name = file[g].name,
         \/ dir'[e].leaves = dir[e].leaves
         \/ c \in 1 .. Len(file') /\ dir'[e].leaves = Append(dir[e].leaves, c)
  PROVE  /\ Leaf(e, n) # None => Leaf(e, n)' = Leaf(e, n)
         /\ Leaf(e, n) = None => Leaf(e, n)' \in {None, c}
         /\ dir'[e].leaves = dir[e].leaves => Leaf(e, n)' = Leaf(e, n)
PROOF
<1> DEFINE k == Len(dir[e].leaves)
           S == LeafHits(e, n)
           T == LeafHits(e, n)'
           more == c \in 1 .. Len(file') /\ dir'[e].leaves = Append(dir[e].leaves, c)
<1>1. /\ k \in Nat /\ DOMAIN dir[e].leaves = 1 .. k /\ e \in 1 .. Len(dir') /\ Len(file) \in Nat
      /\ dir[e].leaves \in Seq(1 .. Len(file)) /\ 1 .. Len(file) \subseteq 1 .. Len(file')
      /\ \A i \in 1 .. k : dir[e].leaves[i] \in 1 .. Len(file)
  <2>1. /\ k \in Nat /\ DOMAIN dir[e].leaves = 1 .. k /\ Len(file) \in Nat /\ Len(dir) \in Nat
        /\ dir[e].leaves \in Seq(1 .. Len(file))
        /\ \A i \in 1 .. k : dir[e].leaves[i] \in 1 .. Len(file)
    BY DirType
  <2>2. Len(dir') \in Nat
    BY DEF TypeOK
  <2>3. Len(file') \in Nat
    BY DEF TypeOK
  <2> QED
    BY <2>1, <2>2, <2>3
<1>2. /\ DOMAIN dir'[e].leaves = 1 .. k \/ (more /\ DOMAIN dir'[e].leaves = 1 .. k + 1)
      /\ \A i \in 1 .. k : dir'[e].leaves[i] = dir[e].leaves[i]
      /\ more => dir'[e].leaves[k + 1] = c
  <2>1. CASE dir'[e].leaves = dir[e].leaves /\ ~ more
    BY <1>1, <2>1
  <2>2. CASE more
    BY <1>1, <2>2, Appended
  <2> QED
    BY <2>1, <2>2
<1>3. /\ S = {i \in 1 .. k : file[dir[e].leaves[i]].name = n}
      /\ T = {i \in DOMAIN dir'[e].leaves : file'[dir'[e].leaves[i]].name = n}
  BY <1>1 DEF LeafHits
<1>4. \A i \in 1 .. k : file'[dir'[e].leaves[i]].name = file[dir[e].leaves[i]].name
  BY <1>1, <1>2
<1>5. S \in SUBSET (1 .. k) /\ S \subseteq T /\ T \subseteq S \union {k + 1}
  <2> HIDE DEF k, S, T, more
  <2>1. DOMAIN dir'[e].leaves = 1 .. k \/ DOMAIN dir'[e].leaves = (1 .. k) \union {k + 1}
    BY <1>1, <1>2
  <2> QED
    BY <1>3, <1>4, <2>1
<1>6. /\ \A i : Lowest(i, S) => Lowest(i, T)
      /\ S = {} => T = {} \/ Lowest(k + 1, T)
  <2> HIDE DEF k, S, T
  <2> QED
    BY <1>1, <1>5, FirstOfMore
<1>7. /\ T = {} => Leaf(e, n)' = None
      /\ \A i \in DOMAIN dir'[e].leaves : Lowest(i, T) => Leaf(e, n)' = dir'[e].leaves[i]
  BY <1>1, FirstNext DEF LeafFacts
<1>8. /\ S = {} => Leaf(e, n) = None
      /\ S # {} => \E i \in 1 .. k : Lowest(i, S)
      /\ \A i \in 1 .. k : Lowest(i, S) => Leaf(e, n) = dir[e].leaves[i] /\ Leaf(e, n) # None
  <2>1. 0 \notin 1 .. Len(file)
    BY <1>1
  <2> QED
    BY <1>1, <2>1, LeafIsFirst DEF LeafFacts, None
<1> HIDE DEF S, T, k
<1>9. CASE S # {}
  <2>1. PICK i \in 1 .. k : Lowest(i, S)
    BY <1>8, <1>9
  <2>2. Lowest(i, T) /\ i \in DOMAIN dir'[e].leaves
    BY <1>1, <1>2, <1>6, <2>1
  <2> QED
    BY <1>2, <1>7, <1>8, <2>1, <2>2
<1>10. CASE S = {} /\ T = {}
  BY <1>7, <1>8, <1>10
<1>11. CASE S = {} /\ T # {}
  <2>1. Lowest(k + 1, T)
    BY <1>6, <1>11
  <2>2. k + 1 \in DOMAIN dir'[e].leaves
    BY <1>3, <2>1 DEF Lowest
  <2>3. more /\ dir'[e].leaves # dir[e].leaves
    <3>1. k + 1 \notin 1 .. k
      BY <1>1
    <3> QED
      BY <1>1, <1>2, <2>2, <3>1
  <2>4. Leaf(e, n)' = c
    BY <1>2, <1>7, <2>1, <2>2, <2>3
  <2> QED
    BY <1>8, <1>11, <2>3, <2>4
<1> QED
  BY <1>9, <1>10, <1>11

\* A step keeps what every directory finds; where one found nothing it finds
\* nothing, directory c or file m.
Finds(c, m) ==
  \A e \in 1 .. Len(dir), n \in Names :
    /\ Child(e, n) # None => Child(e, n)' = Child(e, n)
    /\ Child(e, n) = None => Child(e, n)' \in {None, c}
    /\ Leaf(e, n) # None => Leaf(e, n)' = Leaf(e, n)
    /\ Leaf(e, n) = None => Leaf(e, n)' \in {None, m}

\* c is no directory, or one that has just been made or mounted.
Bare(c) ==
  c # None => /\ c \in 1 .. Len(dir')
              /\ \A n \in Names : Child(c, n)' = None /\ Leaf(c, n)' = None

LEMMA AttachFinds ==
  ASSUME FInv, FInv', NEW d, NEW c, Attach(d, c)
  PROVE  Finds(c, None) /\ Bare(c)
PROOF
<1>1. /\ TypeOK /\ TypeOK' /\ Len(dir) \in Nat /\ Len(file) \in Nat
      /\ \A g \in 1 .. Len(file) : file'[g].name = file[g].name
      /\ Len(file') >= Len(file) /\ Len(file') = Len(file)
  BY DirType DEF FInv, Attach
<1>2. /\ c \in 2 .. Len(dir')
      /\ Len(dir') = Len(dir) \/ Len(dir') = Len(dir) + 1
      /\ \A e \in 1 .. Len(dir) :
           /\ dir'[e].name = dir[e].name /\ dir'[e].leaves = dir[e].leaves
           /\ dir'[e].childs = dir[e].childs \/ dir'[e].childs = Append(dir[e].childs, c)
      /\ dir'[c].childs = <<>> /\ dir'[c].leaves = <<>>
  BY DEF Attach
<1>3. Len(dir') >= Len(dir) /\ c \in 1 .. Len(dir') /\ 0 \notin 1 .. Len(file')
  BY <1>1, <1>2
<1>4. ASSUME NEW e \in 1 .. Len(dir), NEW n \in Names
      PROVE  /\ Child(e, n) # None => Child(e, n)' = Child(e, n)
             /\ Child(e, n) = None => Child(e, n)' \in {None, c}
  BY <1>1, <1>2, <1>3, ChildKept
<1>5. ASSUME NEW e \in 1 .. Len(dir), NEW n \in Names
      PROVE  Leaf(e, n)' = Leaf(e, n)
  BY <1>1, <1>2, <1>3, LeafKept
<1>6. Finds(c, None)
  BY <1>4, <1>5 DEF Finds
<1>7. ASSUME NEW n \in Names
      PROVE  Child(c, n)' = None /\ Leaf(c, n)' = None
  <2>1. DOMAIN dir'[c].childs = {} /\ DOMAIN dir'[c].leaves = {}
    BY <1>2
  <2>2. ChildHits(c, n)' = {} /\ LeafHits(c, n)' = {}
    BY <2>1 DEF ChildHits, LeafHits
  <2> QED
    BY <1>1, <1>3, <2>2, FirstNext DEF ChildFacts, LeafFacts
<1> QED
  BY <1>3, <1>6, <1>7 DEF Bare

LEMMA AddsFinds ==
  ASSUME FInv, FInv', NEW d, NEW n, Adds(d, n)
  PROVE  Finds(None, Len(file) + 1)
PROOF
<1> DEFINE m == Len(file) + 1
<1>1. TypeOK /\ TypeOK' /\ Len(dir) \in Nat /\ Len(file) \in Nat
  BY DirType DEF FInv
<1>2. /\ Len(dir') = Len(dir) /\ Len(file') = m
      /\ file' = Append(file, [name |-> n, data |-> <<>>])
      /\ \A e \in 1 .. Len(dir) :
           /\ dir'[e].name = dir[e].name /\ dir'[e].childs = dir[e].childs
           /\ dir'[e].leaves = dir[e].leaves \/ dir'[e].leaves = Append(dir[e].leaves, m)
  BY DEF Adds
<1>3. Len(dir') >= Len(dir) /\ Len(file') >= Len(file) /\ m \in 1 .. Len(file')
  BY <1>1, <1>2
<1>4. \A g \in 1 .. Len(file) : file'[g].name = file[g].name
  BY <1>1, <1>2 DEF TypeOK
<1> HIDE DEF m
<1>5. ASSUME NEW e \in 1 .. Len(dir), NEW x \in Names
      PROVE  Child(e, x)' = Child(e, x)
  BY <1>1, <1>2, <1>3, ChildKept
<1>6. ASSUME NEW e \in 1 .. Len(dir), NEW x \in Names
      PROVE  /\ Leaf(e, x) # None => Leaf(e, x)' = Leaf(e, x)
             /\ Leaf(e, x) = None => Leaf(e, x)' \in {None, m}
  BY <1>1, <1>2, <1>3, <1>4, LeafKept
<1> QED
  BY <1>5, <1>6 DEF Finds, m

\* A file made under a name that a directory did not find is found there from then
\* on; one made under a name that it found is not, and nothing else changes.
LEMMA AddedFound ==
  ASSUME FInv, FInv', NEW d, NEW n, Adds(d, n)
  PROVE  /\ Leaf(d, n) = None => Leaf(d, n)' = Len(file) + 1
         /\ Leaf(d, n) # None => Finds(None, None)
PROOF
<1> DEFINE m == Len(file) + 1
           k == Len(dir[d].leaves)
<1>1. TypeOK /\ TypeOK' /\ Len(dir) \in Nat /\ Len(file) \in Nat
  BY DirType DEF FInv
<1>2. /\ d \in 1 .. Len(dir) /\ d \in 1 .. Len(dir') /\ n \in Names
      /\ Len(dir') = Len(dir) /\ Len(file') = m
      /\ file' = Append(file, [name |-> n, data |-> <<>>])
      /\ dir'[d].leaves = Append(dir[d].leaves, m)
      /\ \A e \in 1 .. Len(dir) : e # d => dir'[e].leaves = dir[e].leaves
  BY DEF Adds
<1>3. /\ \A g \in 1 .. Len(file) : file'[g].name = file[g].name
      /\ file'[m].name = n
  BY <1>1, <1>2 DEF TypeOK
<1>4. /\ dir[d].leaves \in Seq(1 .. Len(file)) /\ k \in Nat /\ DOMAIN dir[d].leaves = 1 .. k
      /\ \A i \in 1 .. k : dir[d].leaves[i] \in 1 .. Len(file)
  BY <1>1, <1>2, DirType
<1>5. /\ DOMAIN dir'[d].leaves = (1 .. k) \union {k + 1} /\ dir'[d].leaves[k + 1] = m
      /\ \A i \in 1 .. k : dir'[d].leaves[i] = dir[d].leaves[i]
  <2>1. m \in 1 .. m /\ 1 .. Len(file) \subseteq 1 .. m
    BY <1>1
  <2>2. dir[d].leaves \in Seq(1 .. m)
    BY <1>4, <2>1
  <2>3. /\ Len(Append(dir[d].leaves, m)) = k + 1
        /\ \A i \in 1 .. k : Append(dir[d].leaves, m)[i] = dir[d].leaves[i]
        /\ Append(dir[d].leaves, m)[k + 1] = m
        /\ Append(dir[d].leaves, m) \in Seq(1 .. m)
    BY <2>1, <2>2, Appended
  <2>4. DOMAIN Append(dir[d].leaves, m) = 1 .. k + 1
    BY <2>3
  <2> QED
    BY <1>2, <1>4, <2>3, <2>4
<1> HIDE DEF m, k
<1>6. ASSUME NEW x \in Names, Leaf(d, x) = None
      PROVE  LeafHits(d, x)' = IF x = n THEN {k + 1} ELSE {}
  <2>1. LeafHits(d, x) = {}
    <3>1. 0 \notin 1 .. Len(file)
      BY <1>1
    <3> QED
      BY <1>1, <1>2, <1>6, <3>1, LeafIsFirst DEF LeafFacts, None
  <2>2. \A i \in 1 .. k : file[dir[d].leaves[i]].name # x
    BY <1>4, <2>1 DEF LeafHits
  <2>3. \A i \in 1 .. k : file'[dir'[d].leaves[i]].name # x
    BY <1>3, <1>4, <1>5, <2>2
  <2>4. LeafHits(d, x)' = {i \in (1 .. k) \union {k + 1} : file'[dir'[d].leaves[i]].name = x}
    BY <1>5 DEF LeafHits
  <2> QED
    BY <1>3, <1>5, <2>3, <2>4
<1>7. ASSUME Leaf(d, n) = None
      PROVE  Leaf(d, n)' = m
  <2>1. LeafHits(d, n)' = {k + 1} /\ Lowest(k + 1, {k + 1})
    BY <1>2, <1>4, <1>6, <1>7 DEF Lowest
  <2>2. Lowest(k + 1, LeafHits(d, n)')
    BY <2>1
  <2>3. k + 1 \in DOMAIN dir'[d].leaves /\ dir'[d].leaves[k + 1] = m
    BY <1>5
  <2>4. \A i \in DOMAIN dir'[d].leaves :
          Lowest(i, LeafHits(d, n)') => Leaf(d, n)' = dir'[d].leaves[i]
    BY <1>1, <1>2, FirstNext DEF LeafFacts
  <2> QED
    BY <2>2, <2>3, <2>4
<1>8. ASSUME Leaf(d, n) # None
      PROVE  Finds(None, None)
  <2>1. Finds(None, m)
    BY AddsFinds DEF m
  <2>2. ASSUME NEW e \in 1 .. Len(dir), NEW x \in Names, Leaf(e, x) = None
        PROVE  Leaf(e, x)' = None
    <3>1. CASE e = d
      <4>1. LeafHits(d, x)' = {}
        BY <1>6, <1>8, <2>2, <3>1
      <4> QED
        BY <1>1, <1>2, <3>1, <4>1, FirstNext DEF LeafFacts
    <3>2. CASE e # d
      <4>1. dir'[e].leaves = dir[e].leaves /\ Len(dir') >= Len(dir) /\ Len(file') >= Len(file)
        BY <1>1, <1>2, <3>2 DEF m
      <4>2. Leaf(e, x)' = Leaf(e, x)
        BY <1>1, <1>3, <4>1, LeafKept
      <4> QED
        BY <2>2, <4>2
    <3> QED
      BY <3>1, <3>2
  <2>3. ASSUME NEW e \in 1 .. Len(dir), NEW x \in Names
        PROVE  Child(e, x) = None => Child(e, x)' = None
    BY <2>1 DEF Finds
  <2> QED
    BY <2>1, <2>2, <2>3 DEF Finds
<1> QED
  BY <1>7, <1>8 DEF m

LEMMA SameFinds ==
  ASSUME FInv, FInv', dir' = dir, Len(file') = Len(file),
         \A g \in 1 .. Len(file) : file'[g].name = file[g].name
  PROVE  Finds(None, None)
PROOF
<1>1. /\ TypeOK /\ TypeOK' /\ Len(dir) \in Nat /\ Len(file) \in Nat
      /\ Len(dir') >= Len(dir) /\ Len(file') >= Len(file)
      /\ \A g \in 1 .. Len(dir) : dir'[g].name = dir[g].name
  BY DirType DEF FInv
<1>2. ASSUME NEW e \in 1 .. Len(dir), NEW n \in Names
      PROVE  Child(e, n)' = Child(e, n) /\ Leaf(e, n)' = Leaf(e, n)
  <2>1. dir'[e].childs = dir[e].childs /\ dir'[e].leaves = dir[e].leaves
    OBVIOUS
  <2>2. Child(e, n)' = Child(e, n)
    BY <1>1, <2>1, ChildKept
  <2>3. Leaf(e, n)' = Leaf(e, n)
    BY <1>1, <2>1, LeafKept
  <2> QED
    BY <2>2, <2>3
<1> QED
  BY <1>2 DEF Finds

\* WalkSteps and Lookup, said of a directory that does not change its name.
WalkFacts ==
  \A path \in Seq(Names) :
    /\ Walk(path, 0) = Root
    /\ \A n \in 0 .. Len(path) : \A d :
         n < Len(path) /\ Walk(path, n) = d =>
           Walk(path, n + 1) = IF d = None THEN None ELSE Child(d, path[n + 1])

LookupFacts ==
  \A path \in Paths : \A d :
    Walk(path, Len(path) - 1) = d =>
      Lookup(path) = IF d = None THEN None ELSE Leaf(d, FileName(path))

LEMMA PathFacts == WalkFacts /\ LookupFacts
PROOF
<1>1. WalkFacts
  BY WalkTakesSteps DEF WalkFacts, WalkSteps, Step
<1>2. LookupFacts
  BY DEF LookupFacts, Lookup, Parent
<1> QED
  BY <1>1, <1>2

LEMMA PathFactsNext == WalkFacts' /\ LookupFacts'
PROOF
  BY PathFacts, PTL

\* A path that led somewhere leads there still.
LEMMA WalkKept ==
  ASSUME FInv, NEW c, NEW m, Finds(c, m), Bare(c), NEW path \in Seq(Names),
         NEW n \in 0 .. Len(path)
  PROVE  /\ Walk(path, n) # None => Walk(path, n)' = Walk(path, n)
         /\ Walk(path, n) = None => Walk(path, n)' \in {None, c}
PROOF
<1> DEFINE S == {k \in 0 .. Len(path) :
                   /\ Walk(path, k) # None => Walk(path, k)' = Walk(path, k)
                   /\ Walk(path, k) = None => Walk(path, k)' \in {None, c}}
<1>1. /\ Len(path) \in Nat /\ Len(dir) \in Nat
      /\ \A k \in 1 .. Len(path) : path[k] \in Names
  BY DirType DEF FInv
<1>2. 0 \in S
  <2>1. Walk(path, 0) = Root /\ Walk(path, 0)' = Root
    BY PathFacts, PathFactsNext DEF WalkFacts
  <2> QED
    BY <1>1, <2>1 DEF Root, None
<1>3. ASSUME NEW k \in 0 .. Len(path), k \in S, k < Len(path) PROVE k + 1 \in S
  <2> DEFINE x == path[k + 1]
  <2>1. PICK d : d = Walk(path, k)
    OBVIOUS
  <2>2. PICK e : e = Walk(path, k)'
    OBVIOUS
  <2>3. k + 1 \in 0 .. Len(path) /\ x \in Names /\ d \in 0 .. Len(dir)
    BY <1>1, <1>3, <2>1, WalkReaches
  <2>4. Walk(path, k + 1) = IF d = None THEN None ELSE Child(d, x)
    BY <1>3, <2>1, PathFacts DEF WalkFacts
  <2>5. Walk(path, k + 1)' = IF e = None THEN None ELSE Child(e, x)'
    BY <1>3, <2>2, PathFactsNext DEF WalkFacts
  <2>6. (d # None => e = d) /\ (d = None => e \in {None, c})
    BY <1>3, <2>1, <2>2
  <2> HIDE DEF x
  <2>7. CASE d = None
    <3>1. Walk(path, k + 1) = None
      BY <2>4, <2>7
    <3>2. e # None => e = c /\ Child(c, x)' = None
      BY <2>3, <2>6, <2>7 DEF Bare
    <3>3. Walk(path, k + 1)' = None
      BY <2>5, <3>2
    <3> QED
      BY <2>3, <3>1, <3>3
  <2>8. CASE d # None
    <3>1. d \in 1 .. Len(dir) /\ e = d
      BY <1>1, <2>3, <2>6, <2>8 DEF None
    <3>2. /\ Child(d, x) # None => Child(d, x)' = Child(d, x)
          /\ Child(d, x) = None => Child(d, x)' \in {None, c}
      BY <2>3, <3>1 DEF Finds
    <3>3. Walk(path, k + 1) = Child(d, x) /\ Walk(path, k + 1)' = Child(d, x)'
      BY <2>4, <2>5, <2>8, <3>1
    <3> QED
      BY <2>3, <3>2, <3>3
  <2> QED
    BY <2>7, <2>8
<1> HIDE DEF S
<1>4. 0 .. Len(path) \subseteq S
  BY <1>1, <1>2, <1>3, Induction
<1> QED
  BY <1>4 DEF S

\* A path that led to a file leads to it still.
LEMMA LookupKept ==
  ASSUME FInv, NEW c, NEW m, Finds(c, m), Bare(c), NEW path \in Paths
  PROVE  /\ Lookup(path) # None => Lookup(path)' = Lookup(path)
         /\ Lookup(path) = None => Lookup(path)' \in {None, m}
PROOF
<1> DEFINE k == Len(path) - 1
           n == FileName(path)
<1>1. path \in Seq(Names) /\ n \in Names /\ k \in 0 .. Len(path) /\ Len(dir) \in Nat
  BY PathType, DirType DEF FInv
<1>2. PICK d : d = Walk(path, k)
  OBVIOUS
<1>3. PICK e : e = Walk(path, k)'
  OBVIOUS
<1>4. d \in 0 .. Len(dir)
  BY <1>1, <1>2, WalkReaches
<1>5. (d # None => e = d) /\ (d = None => e \in {None, c})
  BY <1>1, <1>2, <1>3, WalkKept
<1>6. Lookup(path) = IF d = None THEN None ELSE Leaf(d, n)
  BY <1>2, PathFacts DEF LookupFacts
<1>7. Lookup(path)' = IF e = None THEN None ELSE Leaf(e, n)'
  BY <1>3, PathFactsNext DEF LookupFacts
<1> HIDE DEF k, n
<1>8. CASE d = None
  <2>1. Lookup(path) = None
    BY <1>6, <1>8
  <2>2. e # None => e = c /\ Leaf(c, n)' = None
    BY <1>1, <1>5, <1>8 DEF Bare
  <2>3. Lookup(path)' = None
    BY <1>7, <2>2
  <2> QED
    BY <2>1, <2>3
<1>9. CASE d # None
  <2>1. d \in 1 .. Len(dir) /\ e = d
    BY <1>1, <1>4, <1>5, <1>9 DEF None
  <2>2. /\ Leaf(d, n) # None => Leaf(d, n)' = Leaf(d, n)
        /\ Leaf(d, n) = None => Leaf(d, n)' \in {None, m}
    BY <1>1, <2>1 DEF Finds
  <2>3. Lookup(path) = Leaf(d, n) /\ Lookup(path)' = Leaf(d, n)'
    BY <1>6, <1>7, <1>9, <2>1
  <2> QED
    BY <2>2, <2>3
<1> QED
  BY <1>8, <1>9

LEMMA BareNone == Bare(None)
PROOF
  BY DEF Bare

\* A path without a file leads to the one that is made for it; making another for a
\* path that has one changes no name.
LEMMA CreatedFound ==
  ASSUME FInv, FInv', NEW path \in Paths, Adds(Parent(path), FileName(path))
  PROVE  /\ Lookup(path) = None => Lookup(path)' = Len(file) + 1
         /\ Lookup(path) # None => Finds(None, None)
PROOF
<1> DEFINE k == Len(path) - 1
           n == FileName(path)
           m == Len(file) + 1
<1>1. path \in Seq(Names) /\ n \in Names /\ k \in 0 .. Len(path) /\ Len(dir) \in Nat
  BY PathType, DirType DEF FInv
<1>2. PICK d : d = Parent(path)
  OBVIOUS
<1>3. PICK e : e = Walk(path, k)'
  OBVIOUS
<1>4. d = Walk(path, k) /\ Adds(d, n)
  BY <1>2 DEF Parent
<1>5. d \in 1 .. Len(dir) /\ d # None
  BY <1>1, <1>4 DEF Adds, None
<1>6. e = d
  <2>1. Finds(None, m)
    BY <1>4, AddsFinds
  <2> QED
    BY <1>1, <1>3, <1>4, <1>5, <2>1, BareNone, WalkKept
<1>7. Lookup(path) = Leaf(d, n)
  BY <1>4, <1>5, PathFacts DEF LookupFacts
<1>8. Lookup(path)' = Leaf(d, n)'
  <2>1. Lookup(path)' = IF e = None THEN None ELSE Leaf(e, n)'
    BY <1>3, PathFactsNext DEF LookupFacts
  <2> QED
    BY <1>5, <1>6, <2>1
<1>9. /\ Leaf(d, n) = None => Leaf(d, n)' = m
      /\ Leaf(d, n) # None => Finds(None, None)
  BY <1>4, AddedFound
<1> HIDE DEF k, n, m
<1> QED
  BY <1>7, <1>8, <1>9 DEF m

-----------------------------------------------------------------------------
\* What a step does to directories and files.
Changes(f, b) == UNCHANGED dir /\ file' = [file EXCEPT ![f].data = b]

StepKind ==
  \/ \E d, c : Attach(d, c)
  \/ \E path \in Paths : Adds(Parent(path), FileName(path))
  \/ \E f \in 1 .. Len(file) : Changes(f, <<>>)
  \/ \E f \in 1 .. Len(file), at \in 0 .. MaxSize, chunk \in Chunks :
       Changes(f, Overlay(file[f].data, at, chunk)) /\ Overlay(file[f].data, at, chunk) \in Seq(Bytes)
  \/ UNCHANGED <<dir, file>>

LEMMA StepKinds ==
  ASSUME FInv, [Next]_vars
  PROVE  StepKind
PROOF
<1>1. CASE \E path \in DirPaths : MkDir(path)
  BY <1>1, MkDirAttaches DEF StepKind
<1>2. CASE \E c \in 2 .. Len(DeviceNames), path \in MountPaths : Mount(c, path)
  BY <1>2, MountAttaches DEF StepKind
<1>3. ASSUME NEW t \in Tasks, NEW path \in Paths, NEW flags \in OpenFlags,
             Create(t, path, flags)
      PROVE  StepKind
  BY <1>3, CreateEffect DEF StepKind
<1>4. ASSUME NEW t \in Tasks, NEW path \in Paths, NEW flags \in OpenFlags,
             Open(t, path, flags)
      PROVE  StepKind
  <2>1. /\ Lookup(path) \in 1 .. Len(file) /\ UNCHANGED dir
        /\ file' = file \/ file' = [file EXCEPT ![Lookup(path)].data = <<>>]
    BY <1>4, OpenEffect
  <2> QED
    BY <2>1 DEF StepKind, Changes
<1>5. ASSUME NEW t \in Tasks, NEW i \in Fds, NEW n \in 0 .. MaxSize,
             Read(t, i, n) \/ LSeek(t, i, n)
      PROVE  StepKind
  BY <1>5, ReadEffect, LSeekEffect DEF StepKind
<1>6. ASSUME NEW t \in Tasks, NEW i \in Fds, NEW chunk \in Chunks, Write(t, i, chunk)
      PROVE  StepKind
  <2> DEFINE f == fd[t][i].file
             at == fd[t][i].cursor
  <2>1. /\ f \in 1 .. Len(file) /\ at \in Nat /\ at <= MaxSize /\ UNCHANGED dir
        /\ file' = [file EXCEPT ![f].data = Overlay(file[f].data, at, chunk)]
        /\ Overlay(file[f].data, at, chunk) \in Seq(Bytes)
    BY <1>6, WriteEffect
  <2>2. at \in 0 .. MaxSize
    BY <2>1, FileSystemAssumption
  <2> HIDE DEF f, at
  <2> QED
    BY <2>1, <2>2 DEF StepKind, Changes
<1>7. ASSUME NEW t \in Tasks, NEW i \in Fds, Close(t, i)
      PROVE  StepKind
  BY <1>7, CloseEffect DEF StepKind
<1>8. ASSUME NEW t \in Tasks, Exit(t)
      PROVE  StepKind
  BY <1>8 DEF Exit, StepKind
<1>9. CASE UNCHANGED vars
  BY <1>9 DEF vars, StepKind
<1> QED
  BY <1>1, <1>2, <1>3, <1>4, <1>5, <1>6, <1>7, <1>8, <1>9 DEF Next

\* A file that changes keeps its name.
LEMMA ChangesFinds ==
  ASSUME FInv, FInv', NEW f \in 1 .. Len(file), NEW b \in Seq(Bytes), Changes(f, b)
  PROVE  Finds(None, None)
PROOF
<1>1. file' = [file EXCEPT ![f].data = b] /\ dir' = dir
  BY DEF Changes
<1>2. /\ Len(file') = Len(file)
      /\ \A g \in 1 .. Len(file) : file'[g].name = file[g].name
  BY <1>1, FileChanged DEF FInv
<1> QED
  BY <1>1, <1>2, SameFinds

LEMMA StepFinds ==
  ASSUME FInv, FInv', [Next]_vars
  PROVE  \E c, m : Finds(c, m)
PROOF
<1>1. <<>> \in Seq(Bytes)
  OBVIOUS
<1>2. CASE \E d, c : Attach(d, c)
  BY <1>2, AttachFinds
<1>3. CASE \E path \in Paths : Adds(Parent(path), FileName(path))
  BY <1>3, AddsFinds
<1>4. CASE \E f \in 1 .. Len(file) : Changes(f, <<>>)
  BY <1>1, <1>4, ChangesFinds
<1>5. CASE \E f \in 1 .. Len(file), at \in 0 .. MaxSize, chunk \in Chunks :
             /\ Changes(f, Overlay(file[f].data, at, chunk))
             /\ Overlay(file[f].data, at, chunk) \in Seq(Bytes)
  BY <1>5, ChangesFinds
<1>6. CASE UNCHANGED <<dir, file>>
  BY <1>6, SameFinds
<1> QED
  BY <1>2, <1>3, <1>4, <1>5, <1>6, StepKinds DEF StepKind

\* What a name stands for in a directory does not change any more.
THEOREM NamesAreStable == Spec => NamesStable
PROOF
<1>1. FInv /\ FInv' /\ [Next]_vars =>
        [\A d \in 1 .. Len(dir), n \in Names :
           /\ Child(d, n) # None => Child(d, n)' = Child(d, n)
           /\ Leaf(d, n) # None => Leaf(d, n)' = Leaf(d, n)]_vars
  BY StepFinds DEF Finds
<1> QED
  BY FilesInvariant, <1>1, PTL DEF Spec, NamesStable

-----------------------------------------------------------------------------
\* The refinement: every step is one of FileStore, or changes nothing of it.
Contents == [f \in 1 .. Len(file) |-> file[f].data]
Bindings == [path \in Paths |-> Lookup(path)]

LEMMA BindingsKept ==
  ASSUME FInv, NEW c, Finds(c, None), Bare(c)
  PROVE  Bindings' = Bindings
PROOF
<1>1. ASSUME NEW path \in Paths PROVE Lookup(path)' = Lookup(path)
  BY LookupKept
<1> QED
  BY <1>1 DEF Bindings

LEMMA ContentsChanged ==
  ASSUME FInv, NEW f \in 1 .. Len(file), NEW b \in Seq(Bytes), Changes(f, b)
  PROVE  Contents' = [Contents EXCEPT ![f] = b] /\ f \in DOMAIN Contents
PROOF
<1>1. file' = [file EXCEPT ![f].data = b]
  BY DEF Changes
<1>2. /\ Len(file') = Len(file) /\ file'[f].data = b
      /\ \A g \in 1 .. Len(file) : g # f => file'[g] = file[g]
  BY <1>1, FileChanged DEF FInv
<1>3. Contents' = [g \in 1 .. Len(file) |-> file'[g].data]
  BY <1>2 DEF Contents
<1>4. \A g \in 1 .. Len(file) : file'[g].data = IF g = f THEN b ELSE file[g].data
  BY <1>2
<1> QED
  BY <1>3, <1>4 DEF Contents

LEMMA ContentsAdded ==
  ASSUME FInv, NEW d, NEW n, Adds(d, n)
  PROVE  Contents' = Append(Contents, <<>>) /\ Len(Contents) = Len(file)
PROOF
<1>1. /\ file' = Append(file, [name |-> n, data |-> <<>>]) /\ Len(file') = Len(file) + 1
      /\ file \in Seq([name : Names, data : Seq(Bytes)]) /\ Len(file) \in Nat
  BY DirType DEF Adds, FInv, TypeOK
<1>2. /\ \A g \in 1 .. Len(file) : file'[g] = file[g]
      /\ file'[Len(file) + 1].data = <<>>
  BY <1>1
<1>3. Contents' = [g \in 1 .. Len(file) + 1 |-> file'[g].data]
  BY <1>1 DEF Contents
<1>4. \A g \in 1 .. Len(file) : file[g].data \in Seq(Bytes)
  BY FileType DEF FInv
<1>5. Contents \in Seq(Seq(Bytes)) /\ Len(Contents) = Len(file)
  <2>1. Contents \in [1 .. Len(file) -> Seq(Bytes)]
    BY <1>4 DEF Contents
  <2> QED
    BY <1>1, <2>1, FunSeq
<1>6. <<>> \in Seq(Bytes)
  OBVIOUS
<1>7. /\ Append(Contents, <<>>) \in Seq(Seq(Bytes))
      /\ Len(Append(Contents, <<>>)) = Len(file) + 1
      /\ \A g \in 1 .. Len(file) : Append(Contents, <<>>)[g] = Contents[g]
      /\ Append(Contents, <<>>)[Len(file) + 1] = <<>>
  BY <1>5, <1>6, Appended
<1>8. Append(Contents, <<>>) = [g \in 1 .. Len(file) + 1 |-> Append(Contents, <<>>)[g]]
  BY <1>1, <1>7, LenProperties
<1>9. \A g \in 1 .. Len(file) + 1 : Append(Contents, <<>>)[g] = file'[g].data
  <2> SUFFICES ASSUME NEW g \in 1 .. Len(file) + 1
               PROVE  Append(Contents, <<>>)[g] = file'[g].data
    OBVIOUS
  <2>1. CASE g = Len(file) + 1
    BY <1>2, <1>7, <2>1
  <2>2. CASE g \in 1 .. Len(file)
    BY <1>2, <1>7, <2>2 DEF Contents
  <2>3. Len(file) \in Nat
    BY <1>1
  <2>4. g = Len(file) + 1 \/ g \in 1 .. Len(file)
    BY <2>3
  <2> QED
    BY <2>1, <2>2, <2>4
<1> QED
  BY <1>3, <1>5, <1>8, <1>9

LEMMA StoreInit == Init => Bindings = [p \in Paths |-> 0] /\ Contents = <<>>
PROOF
<1> SUFFICES ASSUME Init PROVE Bindings = [p \in Paths |-> 0] /\ Contents = <<>>
  OBVIOUS
<1>1. FInv
  BY FilesInit
<1>2. Len(file) = 0 /\ \A d \in 1 .. Len(DeviceNames) : dir[d].leaves = <<>>
  BY DEF Init, Directory
<1>3. Len(dir) = Len(DeviceNames)
  BY FileSystemAssumption DEF Init
<1>4. ASSUME NEW path \in Paths PROVE Lookup(path) = 0
  <2>1. Lookup(path) = None \/ Lookup(path) \in 1 .. Len(file)
    BY <1>1, LookupType
  <2> QED
    BY <1>2, <2>1 DEF None
<1> QED
  BY <1>2, <1>4 DEF Bindings, Contents

\* The bytes that a write leaves are the ones FileStore says.
LEMMA OverlayIsWritten ==
  ASSUME NEW b, NEW at \in Nat, NEW chunk \in Seq(Bytes), Len(b) \in Nat
  PROVE  Overlay(b, at, chunk) = Store!Written(b, at, chunk)
PROOF
<1> DEFINE end == at + Len(chunk)
           size == IF end > Len(b) THEN end ELSE Len(b)
<1>1. end \in Nat /\ size \in Nat
  BY LenProperties
<1> HIDE DEF end, size
<1>2. \A k \in 1 .. size : (k > at /\ k <= end) <=> k \in at + 1 .. end
  BY <1>1
<1>3. [k \in 1 .. size |->
         IF k > at /\ k <= end THEN chunk[k - at]
         ELSE IF k <= Len(b) THEN b[k] ELSE Gap]
      = [k \in 1 .. size |->
           IF k \in at + 1 .. end THEN chunk[k - at]
           ELSE IF k <= Len(b) THEN b[k] ELSE Gap]
  BY <1>2
<1> QED
  BY <1>3 DEF Overlay, Store!Written, end, size

LEMMA StepOfStore ==
  ASSUME FInv, FInv', [Next]_vars
  PROVE  Store!Next \/ (Bindings' = Bindings /\ Contents' = Contents)
PROOF
<1>1. <<>> \in Seq(Bytes) /\ None = 0
  BY DEF None
<1>2. ASSUME NEW d, NEW c, Attach(d, c)
      PROVE  Bindings' = Bindings /\ Contents' = Contents
  <2>1. Bindings' = Bindings
    BY <1>2, AttachFinds, BindingsKept
  <2>2. file' = file
    BY <1>2 DEF Attach
  <2> QED
    BY <2>1, <2>2 DEF Contents
<1>3. ASSUME NEW path \in Paths, Adds(Parent(path), FileName(path))
      PROVE  Store!Create(path) \/ Store!CreateAgain(path)
  <2> DEFINE m == Len(file) + 1
             taken == {p \in Paths : Lookup(p) = 0 /\ Lookup(p)' = m}
  <2>1. Finds(None, m)
    BY <1>3, AddsFinds
  <2>2. Contents' = Append(Contents, <<>>) /\ Len(Contents) + 1 = m
    BY <1>3, ContentsAdded
  <2>3. CASE Lookup(path) # None
    <3>1. Finds(None, None)
      BY <1>3, <2>3, CreatedFound
    <3>2. Bindings' = Bindings
      BY <3>1, BareNone, BindingsKept
    <3>3. Bindings[path] # 0
      BY <1>1, <2>3 DEF Bindings
    <3> HIDE DEF m
    <3> QED
      BY <2>2, <3>2, <3>3 DEF Store!CreateAgain, Bindings, Contents
  <2>4. CASE Lookup(path) = None
    <3>1. Lookup(path)' = m
      BY <1>3, <2>4, CreatedFound
    <3> HIDE DEF m
    <3>2. path \in taken /\ Bindings[path] = 0
      BY <1>1, <2>4, <3>1 DEF Bindings
    <3>3. \A p \in Paths : /\ Lookup(p) # None => Lookup(p)' = Lookup(p)
                           /\ Lookup(p) = None => Lookup(p)' \in {None, m}
      BY <2>1, BareNone, LookupKept
    <3>4. \A p \in Paths : Lookup(p)' = IF p \in taken THEN m ELSE Lookup(p)
      BY <1>1, <3>3
    <3>5. Bindings' = [p \in Paths |-> IF p \in taken THEN m ELSE Bindings[p]]
      BY <3>4 DEF Bindings
    <3>6. taken \in SUBSET {p \in Paths : Bindings[p] = 0}
      BY DEF Bindings
    <3> HIDE DEF taken
    <3> QED
      BY <2>2, <3>2, <3>5, <3>6 DEF Store!Create, Bindings, Contents
  <2> QED
    BY <2>3, <2>4
<1>4. ASSUME NEW f \in 1 .. Len(file), Changes(f, <<>>)
      PROVE  f \in DOMAIN Contents /\ Store!Truncate(f)
  <2>1. Bindings' = Bindings
    BY <1>1, <1>4, ChangesFinds, BareNone, BindingsKept
  <2>2. Contents' = [Contents EXCEPT ![f] = <<>>] /\ f \in DOMAIN Contents
    BY <1>1, <1>4, ContentsChanged
  <2> QED
    BY <2>1, <2>2 DEF Store!Truncate, Bindings, Contents
<1>5. ASSUME NEW f \in 1 .. Len(file), NEW at \in 0 .. MaxSize, NEW chunk \in Chunks,
             Changes(f, Overlay(file[f].data, at, chunk)),
             Overlay(file[f].data, at, chunk) \in Seq(Bytes)
      PROVE  f \in DOMAIN Contents /\ Store!Write(f)
  <2> DEFINE b == Overlay(file[f].data, at, chunk)
  <2>1. Bindings' = Bindings
    BY <1>5, ChangesFinds, BareNone, BindingsKept
  <2>2. Contents' = [Contents EXCEPT ![f] = b] /\ f \in DOMAIN Contents
    BY <1>5, ContentsChanged
  <2>3. b = Store!Written(Contents[f], at, chunk)
    <3>1. at \in Nat /\ chunk \in Seq(Bytes) /\ Len(file[f].data) \in Nat
      BY FileSystemAssumption, FileType DEF FInv
    <3>2. b = Store!Written(file[f].data, at, chunk)
      BY <3>1, OverlayIsWritten
    <3> QED
      BY <3>2 DEF Contents
  <2> HIDE DEF b
  <2>4. Contents' = [Contents EXCEPT ![f] = Store!Written(Contents[f], at, chunk)]
    BY <2>2, <2>3
  <2> QED
    BY <2>1, <2>2, <2>4 DEF Store!Write, Bindings, Contents
<1>6. CASE UNCHANGED <<dir, file>>
  <2>1. Bindings' = Bindings
    BY <1>6, SameFinds, BareNone, BindingsKept
  <2> QED
    BY <1>6, <2>1 DEF Contents
<1> QED
  BY <1>2, <1>3, <1>4, <1>5, <1>6, StepKinds DEF StepKind, Store!Next, Contents

\* The calls implement FileStore: a path is bound once, and bytes change only
\* where somebody writes them.
THEOREM CallsImplementStore == Spec => StoreSpec
PROOF
<1>1. Init => Store!Init
  BY StoreInit DEF Store!Init, Bindings, Contents
<1>2. FInv /\ FInv' /\ [Next]_vars => [Store!Next]_Store!svars
  BY StepOfStore DEF Store!svars, Bindings, Contents
<1> QED
  BY <1>1, <1>2, FilesInvariant, PTL DEF Spec, StoreSpec, Store!Spec

=============================================================================
