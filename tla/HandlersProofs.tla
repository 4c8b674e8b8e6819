---------------------------- MODULE HandlersProofs ----------------------------
(***************************************************************************)
(* The table of key handlers and the lists of the tasks stay in agreement. *)
(* What the runs check is inductive when taken together: the lists name    *)
(* handlers of their own task, and every handler of a task that never had  *)
(* too many is in its list.                                                *)
(***************************************************************************)
EXTENDS Handlers, WellFoundedInduction, TLAPS

HInv == TypeOK /\ ListsAgree /\ HeldInstalled /\ HandlersAlive

\* A loop over slots stops somewhere when there is something to find.
LEMMA FirstExists ==
  ASSUME NEW S \in SUBSET Slot, S # {}
  PROVE  \E k \in S : First(k, S)
PROOF
<1>1. S \in SUBSET Nat
  BY HandlersAssumption DEF Slot
<1>2. IsWellFoundedOn(OpToRel(<, Nat), Nat)
  BY NatLessThanWellFounded
<1>3. PICK x \in S : \A y \in S : <<y, x>> \notin OpToRel(<, Nat)
  BY <1>1, <1>2, WFMin
<1>4. \A y \in S : x <= y
  <2> SUFFICES ASSUME NEW y \in S, y < x PROVE FALSE
    BY <1>1
  <2>1. <<y, x>> \in Nat \X Nat /\ <<y, x>>[1] < <<y, x>>[2]
    BY <1>1
  <2>2. <<y, x>> \in OpToRel(<, Nat)
    BY <2>1 DEF OpToRel
  <2> QED
    BY <1>3, <2>2
<1> QED
  BY <1>4 DEF First

LEMMA InitHInv == Init => HInv
PROOF
  BY HandlersAssumption
  DEF Init, HInv, TypeOK, ListsAgree, HeldInstalled, HandlersAlive, Index, Slot, Empty

LEMMA CreateHInv ==
  ASSUME HInv, NEW t \in Tasks, Create(t)
  PROVE  HInv'
PROOF
<1> USE DEF HInv
<1>1. TypeOK'
  BY DEF TypeOK, Create
<1>2. \A k \in Slot : list'[t][k] = Empty
  BY DEF TypeOK, Create
<1>3. \A u \in Tasks \ {t} : list'[u] = list[u] /\ life'[u] = life[u]
  BY DEF TypeOK, Create
<1>4. table' = table /\ held' = held /\ lost' = lost /\ over' = over /\ life[t] = "new"
  BY DEF Create
<1>5. ListsAgree'
  BY <1>2, <1>3, <1>4 DEF ListsAgree
<1>6. HeldInstalled'
  BY <1>4 DEF HeldInstalled
<1>7. HandlersAlive'
  BY <1>3, <1>4 DEF HandlersAlive
<1> QED
  BY <1>1, <1>5, <1>6, <1>7

LEMMA CatchHInv ==
  ASSUME HInv, NEW t \in Tasks, Catch(t)
  PROVE  HInv'
PROOF
<1> USE DEF HInv
<1>1. PICK i \in Index :
        /\ First(i, {j \in Index : table[j] = NoHandler})
        /\ table' = [table EXCEPT ![i] = t]
        /\ list' = [list EXCEPT ![t] =
                      [k \in Slot |-> IF First(k, FreeSlots(t)) THEN i ELSE @[k]]]
        /\ held' = [held EXCEPT ![t] = @ \union {i}]
        /\ lost' = [lost EXCEPT ![t] = @ \ {i}]
  BY DEF Catch
<1>2. /\ life[t] = "alive" /\ life' = life
      /\ over' = IF FreeSlots(t) = {} THEN over \union {t} ELSE over
  BY DEF Catch
<1>3. table[i] = NoHandler
  BY <1>1 DEF First
<1>4. /\ table' \in [Index -> Tasks \union {Kernel, NoHandler}]
      /\ table'[i] = t
      /\ \A j \in Index \ {i} : table'[j] = table[j]
  BY <1>1 DEF TypeOK
<1>5. /\ \A u \in Tasks \ {t} : list'[u] = list[u] /\ held'[u] = held[u] /\ lost'[u] = lost[u]
      /\ \A k \in Slot : list'[t][k] = IF First(k, FreeSlots(t)) THEN i ELSE list[t][k]
      /\ held'[t] = held[t] \union {i} /\ lost'[t] = lost[t] \ {i}
  BY <1>1 DEF TypeOK
<1>6. list' \in [Tasks -> [Slot -> Index \union {Empty}]]
  BY <1>1 DEF TypeOK
<1>7. held' \in [Tasks -> SUBSET Index] /\ lost' \in [Tasks -> SUBSET Index] /\ over' \subseteq Tasks
  BY <1>1, <1>2 DEF TypeOK
<1>8. TypeOK'
  BY <1>2, <1>4, <1>6, <1>7 DEF TypeOK
<1>9. \A u \in Tasks, k \in Slot : list[u][k] # Empty => list[u][k] \in Index \ {i}
  BY <1>3, HandlersAssumption DEF TypeOK, ListsAgree
<1>10. \A k, j \in Slot : First(k, FreeSlots(t)) /\ First(j, FreeSlots(t)) => k = j
  BY DEF First, Slot
<1>11. ListsAgree'
  <2> SUFFICES ASSUME NEW u \in Tasks, NEW k \in Slot, list'[u][k] # Empty
               PROVE  /\ table'[list'[u][k]] = u
                      /\ \A j \in Slot : list'[u][j] = list'[u][k] => j = k
    BY DEF ListsAgree
  <2>1. CASE u # t
    BY <1>4, <1>5, <1>9, <2>1 DEF ListsAgree
  <2>2. CASE u = t /\ First(k, FreeSlots(t))
    <3>1. list'[t][k] = i
      BY <1>5, <2>2
    <3>2. \A j \in Slot : list'[t][j] = i => First(j, FreeSlots(t))
      BY <1>5, <1>9, HandlersAssumption DEF Empty, Index
    <3> QED
      BY <1>4, <1>10, <2>2, <3>1, <3>2
  <2>3. CASE u = t /\ ~ First(k, FreeSlots(t))
    <3>1. list'[t][k] = list[t][k] /\ list[t][k] \in Index \ {i}
      BY <1>5, <1>9, <2>3
    <3>2. table'[list'[t][k]] = t
      BY <1>4, <2>3, <3>1 DEF ListsAgree
    <3>3. \A j \in Slot : list'[t][j] = list[t][k] => list'[t][j] = list[t][j]
      BY <1>5, <3>1
    <3> QED
      BY <2>3, <3>1, <3>2, <3>3 DEF ListsAgree
  <2> QED
    BY <2>1, <2>2, <2>3
<1>12. HeldInstalled'
  <2> SUFFICES ASSUME NEW u \in Tasks, NEW j \in held'[u] \ lost'[u] PROVE table'[j] = u
    BY DEF HeldInstalled
  <2>1. CASE j = i
    <3>1. u = t
      <4>1. table[i] # u
        BY <1>3, HandlersAssumption
      <4>2. ASSUME u # t PROVE FALSE
        <5>1. i \in held[u] \ lost[u]
          BY <1>5, <2>1, <4>2
        <5> QED
          BY <4>1, <5>1 DEF HeldInstalled
      <4> QED
        BY <4>2
    <3> QED
      BY <1>4, <2>1, <3>1
  <2>2. CASE j # i
    <3>1. j \in held[u] \ lost[u] /\ j \in Index
      BY <1>5, <2>2 DEF TypeOK
    <3> QED
      BY <1>4, <2>2, <3>1 DEF HeldInstalled
  <2> QED
    BY <2>1, <2>2
<1>13. HandlersAlive'
  <2> SUFFICES ASSUME NEW j \in Index, table'[j] \in Tasks, table'[j] \notin over'
               PROVE  /\ life'[table'[j]] = "alive"
                      /\ \E k \in Slot : list'[table'[j]][k] = j
    BY DEF HandlersAlive
  <2>1. CASE j = i
    <3>1. FreeSlots(t) # {}
      BY <1>2, <1>4, <2>1
    <3>2. PICK k \in FreeSlots(t) : First(k, FreeSlots(t))
      BY <3>1, FirstExists DEF FreeSlots
    <3> QED
      BY <1>2, <1>4, <1>5, <2>1, <3>2 DEF FreeSlots
  <2>2. CASE j # i
    <3>1. table'[j] = table[j] /\ table[j] \notin over
      BY <1>2, <1>4, <2>2
    <3>2. PICK k \in Slot : list[table[j]][k] = j
      BY <3>1 DEF HandlersAlive
    <3>3. j # Empty
      BY HandlersAssumption DEF Index, Empty
    <3>4. list'[table[j]][k] = j
      <4>1. CASE table[j] # t
        BY <1>5, <3>1, <3>2, <4>1
      <4>2. CASE table[j] = t
        <5>1. ~ First(k, FreeSlots(t))
          BY <3>2, <3>3, <4>2 DEF First, FreeSlots
        <5> QED
          BY <1>5, <3>2, <4>2, <5>1
      <4> QED
        BY <4>1, <4>2
    <3> QED
      BY <1>2, <3>1, <3>4 DEF HandlersAlive
  <2> QED
    BY <2>1, <2>2
<1> QED
  BY <1>8, <1>11, <1>12, <1>13

LEMMA ClearHInv ==
  ASSUME HInv, NEW t \in Tasks, NEW i \in Index, Clear(t, i)
  PROVE  HInv'
PROOF
<1> USE DEF HInv
<1>1. /\ table[i] # NoHandler
      /\ life' = life /\ over' = over
      /\ table' = [table EXCEPT ![i] = NoHandler]
      /\ held' = [held EXCEPT ![t] = @ \ {i}]
  BY DEF Clear
<1>2. list' = [u \in Tasks |-> IF table[i] = u THEN Unlist(list[u], i) ELSE list[u]]
  BY DEF Clear
<1>3. \A u \in Tasks, k \in Slot : list'[u][k] =
        IF table[i] = u /\ First(k, {j \in Slot : list[u][j] = i}) THEN Empty ELSE list[u][k]
  BY <1>2 DEF Unlist, TypeOK
<1>4. i # Empty
  BY HandlersAssumption DEF Index, Empty
\* Only the list of the handler's task names i, and it does once.
<1>5. \A u \in Tasks, k \in Slot : list'[u][k] = IF list[u][k] = i THEN Empty ELSE list[u][k]
  <2> SUFFICES ASSUME NEW u \in Tasks, NEW k \in Slot
               PROVE  table[i] = u /\ First(k, {j \in Slot : list[u][j] = i}) <=> list[u][k] = i
    BY <1>3
  <2>1. ASSUME list[u][k] = i
        PROVE  table[i] = u /\ First(k, {j \in Slot : list[u][j] = i})
    <3>1. table[i] = u /\ \A j \in Slot : list[u][j] = i => j = k
      BY <2>1, <1>4 DEF ListsAgree
    <3> QED
      BY <2>1, <3>1 DEF First, Slot
  <2> QED
    BY <2>1 DEF First
<1>6. /\ table'[i] = NoHandler
      /\ \A j \in Index \ {i} : table'[j] = table[j]
      /\ table' \in [Index -> Tasks \union {Kernel, NoHandler}]
  BY <1>1 DEF TypeOK
<1>7. TypeOK'
  <2>1. list' \in [Tasks -> [Slot -> Index \union {Empty}]]
    BY <1>2 DEF TypeOK, Unlist
  <2>2. held' \in [Tasks -> SUBSET Index]
    BY <1>1 DEF TypeOK
  <2>3. lost' \in [Tasks -> SUBSET Index]
    BY DEF TypeOK, Clear
  <2> QED
    BY <1>1, <1>6, <2>1, <2>2, <2>3 DEF TypeOK
<1>8. ListsAgree'
  <2> SUFFICES ASSUME NEW u \in Tasks, NEW k \in Slot, list'[u][k] # Empty
               PROVE  /\ table'[list'[u][k]] = u
                      /\ \A j \in Slot : list'[u][j] = list'[u][k] => j = k
    BY DEF ListsAgree
  <2>1. list'[u][k] = list[u][k] /\ list[u][k] \in Index \ {i}
    BY <1>5 DEF TypeOK
  <2>2. table'[list'[u][k]] = u
    BY <1>6, <2>1 DEF ListsAgree
  <2>3. \A j \in Slot : list'[u][j] = list[u][k] => list[u][j] = list[u][k]
    BY <1>5, <2>1
  <2> QED
    BY <2>1, <2>2, <2>3 DEF ListsAgree
<1>9. HeldInstalled'
  <2> SUFFICES ASSUME NEW u \in Tasks, NEW j \in held'[u] \ lost'[u] PROVE table'[j] = u
    BY DEF HeldInstalled
  <2>1. CASE u = t
    <3>1. held'[t] = held[t] \ {i} /\ lost'[t] = lost[t] \ {i}
      BY DEF TypeOK, Clear
    <3>2. j \in held[u] \ lost[u] /\ j # i /\ j \in Index
      BY <2>1, <3>1 DEF TypeOK
    <3> QED
      BY <1>6, <3>2 DEF HeldInstalled
  <2>2. CASE u # t
    <3>1. /\ held'[u] = held[u]
          /\ lost'[u] = IF table[i] = u THEN lost[u] \union {i} ELSE lost[u]
      BY <2>2 DEF TypeOK, Clear
    <3>2. j \in held[u] \ lost[u] /\ j \in Index
      BY <3>1 DEF TypeOK
    <3>3. table[j] = u
      BY <3>2 DEF HeldInstalled
    <3>4. j # i
      BY <3>1, <3>3
    <3> QED
      BY <1>6, <3>2, <3>3, <3>4
  <2> QED
    BY <2>1, <2>2
<1>10. HandlersAlive'
  <2> SUFFICES ASSUME NEW j \in Index, table'[j] \in Tasks, table'[j] \notin over
               PROVE  /\ life[table'[j]] = "alive"
                      /\ \E k \in Slot : list'[table'[j]][k] = j
    BY <1>1 DEF HandlersAlive
  <2>1. j # i /\ table'[j] = table[j]
    BY <1>6, HandlersAssumption
  <2>2. PICK k \in Slot : list[table[j]][k] = j
    BY <2>1 DEF HandlersAlive
  <2>3. list'[table[j]][k] = j
    BY <1>5, <2>1, <2>2
  <2> QED
    BY <2>1, <2>3 DEF HandlersAlive
<1> QED
  BY <1>7, <1>8, <1>9, <1>10

LEMMA RemoveHInv ==
  ASSUME HInv, NEW t \in Tasks, Remove(t)
  PROVE  HInv'
PROOF
<1> USE DEF HInv
<1>1. over' = over /\ life[t] = "alive"
  BY DEF Remove
<1>2. /\ table' \in [Index -> Tasks \union {Kernel, NoHandler}]
      /\ \A i \in Index : table'[i] = IF \E k \in Slot : list[t][k] = i
                                      THEN NoHandler ELSE table[i]
  BY DEF Remove, TypeOK
<1>3. /\ list' \in [Tasks -> [Slot -> Index \union {Empty}]]
      /\ \A k \in Slot : list'[t][k] = Empty
      /\ \A u \in Tasks \ {t} : list'[u] = list[u]
  BY DEF Remove, TypeOK
<1>4. /\ life' \in [Tasks -> {"new", "alive", "gone"}] /\ held' \in [Tasks -> SUBSET Index]
      /\ lost' \in [Tasks -> SUBSET Index] /\ held'[t] = {}
      /\ \A u \in Tasks \ {t} :
           life'[u] = life[u] /\ held'[u] = held[u] /\ lost'[u] = lost[u]
  BY DEF Remove, TypeOK
<1>5. TypeOK'
  BY <1>1, <1>2, <1>3, <1>4 DEF TypeOK
<1>6. \A i \in Index : table[i] # t => table'[i] = table[i]
  <2> SUFFICES ASSUME NEW i \in Index, table[i] # t PROVE table'[i] = table[i]
    OBVIOUS
  <2>1. i # Empty
    BY HandlersAssumption DEF Index, Empty
  <2>2. \A k \in Slot : list[t][k] # i
    BY <2>1 DEF ListsAgree
  <2> QED
    BY <1>2, <2>2
<1>7. ListsAgree'
  <2> SUFFICES ASSUME NEW u \in Tasks \ {t}, NEW k \in Slot, list[u][k] # Empty
               PROVE  /\ table'[list[u][k]] = u
                      /\ \A j \in Slot : list[u][j] = list[u][k] => j = k
    BY <1>3 DEF ListsAgree
  <2>1. table[list[u][k]] = u /\ list[u][k] \in Index
    BY DEF ListsAgree, TypeOK
  <2> QED
    BY <1>6, <2>1 DEF ListsAgree
<1>8. HeldInstalled'
  <2> SUFFICES ASSUME NEW u \in Tasks \ {t}, NEW j \in held[u] \ lost[u] PROVE table'[j] = u
    BY <1>4 DEF HeldInstalled
  <2> QED
    BY <1>6 DEF HeldInstalled, TypeOK
<1>9. HandlersAlive'
  <2> SUFFICES ASSUME NEW i \in Index, table'[i] \in Tasks, table'[i] \notin over
               PROVE  /\ life'[table'[i]] = "alive"
                      /\ \E k \in Slot : list'[table'[i]][k] = i
    BY <1>1 DEF HandlersAlive
  <2>1. table'[i] = table[i] /\ \A k \in Slot : list[t][k] # i
    BY <1>2, HandlersAssumption
  <2>2. PICK k \in Slot : list[table[i]][k] = i
    BY <2>1 DEF HandlersAlive
  <2>3. table[i] # t
    BY <2>1, <2>2
  <2> QED
    BY <1>3, <1>4, <2>1, <2>2, <2>3 DEF HandlersAlive
<1> QED
  BY <1>5, <1>7, <1>8, <1>9

-----------------------------------------------------------------------------
\* The invariant holds in every reachable state, for tables and lists of any
\* size and any number of tasks.
THEOREM HandlersInvariant == Spec => []HInv
PROOF
<1>1. Init => HInv
  BY InitHInv
<1>2. HInv /\ [Next]_vars => HInv'
  <2> SUFFICES ASSUME HInv, [Next]_vars PROVE HInv'
    OBVIOUS
  <2>1. CASE UNCHANGED vars
    BY <2>1 DEF vars, HInv, TypeOK, ListsAgree, HeldInstalled, HandlersAlive
  <2>2. CASE Next
    BY <2>2, CreateHInv, CatchHInv, ClearHInv, RemoveHInv DEF Next
  <2> QED
    BY <2>1, <2>2
<1> QED
  BY <1>1, <1>2, PTL DEF Spec

THEOREM HandlersTypeCorrect == Spec => []TypeOK
PROOF
<1>1. HInv => TypeOK
  BY DEF HInv
<1> QED
  BY <1>1, HandlersInvariant, PTL

\* The end of a task, and keyboard_clear_handler, touch nothing but handlers of
\* the task that are there.
THEOREM ListsInAgreement == Spec => []ListsAgree
PROOF
<1>1. HInv => ListsAgree
  BY DEF HInv
<1> QED
  BY <1>1, HandlersInvariant, PTL

\* The handler of an index that a program was given stays its own, until it
\* clears it, ends, or another task clears that index: the end of other tasks and
\* what they clear elsewhere do not take it out, and nobody else is given it.
THEOREM HoldersInstalled == Spec => []HeldInstalled
PROOF
<1>1. HInv => HeldInstalled
  BY DEF HInv
<1> QED
  BY <1>1, HandlersInvariant, PTL

\* No handler outlives a task that never held more than its list has room for.
THEOREM NoHandlerOutlives == Spec => []HandlersAlive
PROOF
<1>1. HInv => HandlersAlive
  BY DEF HInv
<1> QED
  BY <1>1, HandlersInvariant, PTL
=============================================================================
