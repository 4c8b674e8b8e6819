---------------------------- MODULE MsgQueueProofs ----------------------------
(* A message queue that is not both read and undone is a bounded FIFO with   *)
(* undo, for every capacity and every number of messages: the queue of       *)
(* scancodes, the queues of the semaphores, and the line being typed.        *)
EXTENDS MsgQueue, SequenceTheorems, WellFoundedInduction, TLAPS

QInv == TypeOK /\ LinkedBothWays /\ use # "both"

\* The messages at the places of c.
Messages(c) == [i \in 1 .. size |-> node[c[i]].msg]

\* The ways to number the messages of the queue.
Rows == [1 .. size -> 1 .. Len(node)]

\* Within the capacity the unsigned arithmetic on size does not wrap.
LEMMA NoWrap == \A x \in 0 .. Capacity : x % SizeMod = x
<1>1. SizeMod \in Nat \ {0} /\ Capacity < SizeMod
  BY MsgQueueAssumption
<1>2. QED BY <1>1, MsgQueueAssumption, Z3

\* Append, place by place.
LEMMA AppendIs ==
  ASSUME NEW s \in Seq(Msgs), NEW m \in Msgs
  PROVE  Append(s, m) = [i \in 1 .. Len(s) + 1 |-> IF i = Len(s) + 1 THEN m ELSE s[i]]
<1> DEFINE t == [i \in 1 .. Len(s) + 1 |-> IF i = Len(s) + 1 THEN m ELSE s[i]]
<1>1. Append(s, m) \in Seq(Msgs) /\ t \in Seq(Msgs)
  OBVIOUS
<1>2. Len(Append(s, m)) = Len(t) /\ Len(t) = Len(s) + 1
  OBVIOUS
<1>3. \A i \in 1 .. Len(t) : Append(s, m)[i] = t[i]
  OBVIOUS
<1>4. QED
  <2> HIDE DEF t
  <2>1. Append(s, m) = t
    BY <1>1, <1>2, <1>3, SeqEqual
  <2>2. QED BY <2>1 DEF t

\* What the list is made of when k messages have been allocated.
Ptr(k) == {Null} \union 1 .. k
Cells(k) == [next : Ptr(k), prev : Ptr(k), msg : Msgs]

\* The pointers of k messages are pointers of k + 1.
LEMMA CellsGrow ==
  ASSUME NEW k \in Nat
  PROVE  Cells(k) \subseteq Cells(k + 1)
<1>1. Ptr(k) \subseteq Ptr(k + 1)
  BY DEF Ptr
<1>2. QED BY <1>1 DEF Cells

\* What TypeOK says of the parts of the state.
LEMMA TypeFacts ==
  ASSUME TypeOK
  PROVE  /\ node \in Seq(Cells(Len(node))) /\ Len(node) \in Nat
         /\ DOMAIN node = 1 .. Len(node)
         /\ \A i \in 1 .. Len(node) : node[i] \in Cells(Len(node))
         /\ first \in Ptr(Len(node)) /\ last \in Ptr(Len(node))
         /\ size \in 0 .. Capacity /\ size \in Nat /\ out \in Msgs \union {NoMsg}
<1>1. node \in Seq([next : {Null} \union DOMAIN node, prev : {Null} \union DOMAIN node,
                    msg : Msgs])
  BY DEF TypeOK
<1>2. DOMAIN node = 1 .. Len(node) /\ Len(node) \in Nat
  BY <1>1
<1>3. node \in Seq(Cells(Len(node)))
  BY <1>1, <1>2 DEF Cells, Ptr
<1>4. \A i \in 1 .. Len(node) : node[i] \in Cells(Len(node))
  BY <1>2, <1>3
<1>5. QED BY <1>2, <1>3, <1>4, MsgQueueAssumption DEF TypeOK, Ptr

\* What LinkedBothWays says, part by part.
LEMMA ChainFacts ==
  ASSUME QInv
  PROVE  /\ \E c \in Rows : Linked(c)
         /\ first # Null /\ use = "read" => node[last].next = Null
         /\ first # Null /\ use = "edit" => node[first].prev = Null
         /\ \A n \in 1 .. Len(node) : node[n].next \in {Null} \union (n + 1 .. Len(node))
<1>1. DOMAIN node = 1 .. Len(node)
  BY TypeFacts DEF QInv
<1>2. QED BY <1>1 DEF QInv, LinkedBothWays, Rows

\* The queue is empty in every sense or in none.
LEMMA Ends ==
  ASSUME QInv, NEW c \in Rows, Linked(c)
  PROVE  /\ size = 0 <=> first = Null
         /\ size = 0 <=> last = Null
         /\ size # 0 => /\ size \in Nat /\ size >= 1 /\ 1 \in 1 .. size /\ size \in 1 .. size
                        /\ first = c[1] /\ last = c[size]
                        /\ first \in 1 .. Len(node) /\ last \in 1 .. Len(node)
         /\ \A i \in 1 .. size : i # size => c[i] # last
<1>1. size \in Nat /\ Len(node) \in Nat
  BY TypeFacts DEF QInv
<1>2. ASSUME size # 0
      PROVE  /\ size >= 1 /\ 1 \in 1 .. size /\ size \in 1 .. size
             /\ first = c[1] /\ last = c[size]
             /\ first \in 1 .. Len(node) /\ last \in 1 .. Len(node)
  <2>1. size >= 1 /\ 1 \in 1 .. size /\ size \in 1 .. size
    BY <1>1, <1>2
  <2>2. c[1] \in 1 .. Len(node) /\ c[size] \in 1 .. Len(node)
    BY <2>1 DEF Rows
  <2>3. QED BY <1>2, <2>1, <2>2 DEF Linked
<1>3. size = 0 => first = Null /\ last = Null
  BY DEF Linked
<1>4. \A k \in 1 .. Len(node) : k # Null
  BY <1>1 DEF Null
<1>5. ASSUME NEW i \in 1 .. size, i # size
      PROVE  c[i] # last
  <2>1. size # 0 /\ i < size
    BY <1>1, <1>5
  <2>2. c[i] < c[size]
    BY <1>2, <2>1 DEF Linked
  <2>3. c[i] \in 1 .. Len(node) /\ c[size] \in 1 .. Len(node)
    BY <1>2, <2>1 DEF Rows
  <2>4. QED BY <1>1, <1>2, <2>1, <2>2, <2>3
<1>6. QED BY <1>1, <1>2, <1>3, <1>4, <1>5

\* A row of the next state, from the values that state has.
LEMMA LinkedNext ==
  ASSUME NEW k \in Nat, size' = k, NEW d,
         k = 0 => first' = Null /\ last' = Null,
         k # 0 => first' = d[1] /\ last' = d[k],
         \A i, j \in 1 .. k : i < j => d[i] < d[j],
         \A i \in 1 .. k - 1 : node'[d[i]].next = d[i + 1] /\ node'[d[i + 1]].prev = d[i]
  PROVE  Linked(d)'
  BY DEF Linked

\* The messages at the places of a row are messages.
LEMMA MessagesFacts ==
  ASSUME QInv, NEW c \in Rows
  PROVE  /\ Messages(c) \in Seq(Msgs) /\ Len(Messages(c)) = size
         /\ \A i \in 1 .. size : Messages(c)[i] = node[c[i]].msg /\ node[c[i]].msg \in Msgs
<1>1. size \in Nat /\ \A k \in 1 .. Len(node) : node[k].msg \in Msgs
  BY TypeFacts DEF QInv, Cells
<1>2. \A i \in 1 .. size : c[i] \in 1 .. Len(node)
  BY DEF Rows
<1> DEFINE t == Messages(c)
<1>3. t \in [1 .. size -> Msgs]
  BY <1>1, <1>2 DEF Messages
<1>4. \A i \in 1 .. size : t[i] = node[c[i]].msg
  BY DEF Messages
<1>5. t \in Seq(Msgs) /\ Len(t) = size
  <2> HIDE DEF t
  <2>1. QED BY <1>1, <1>3
<1>6. QED BY <1>1, <1>2, <1>4, <1>5

\* The list after msgqueue_add: one more message, the one before linked to it
\* when the queue is not empty, the others as they were.
LEMMA AddedNode ==
  ASSUME QInv, NEW m \in Msgs, Add(m)
  PROVE  /\ node' \in Seq(Cells(Len(node) + 1)) /\ Len(node') = Len(node) + 1
         /\ DOMAIN node' = 1 .. Len(node) + 1
         /\ node'[Len(node) + 1].next = Null /\ node'[Len(node) + 1].msg = m
         /\ first = Null => node'[Len(node) + 1].prev = Null
         /\ first # Null => /\ node'[Len(node) + 1].prev = last
                            /\ node'[last].next = Len(node) + 1
         /\ \A i \in 1 .. Len(node) :
              /\ node'[i].msg = node[i].msg /\ node'[i].prev = node[i].prev
              /\ first = Null \/ i # last => node'[i].next = node[i].next
<1> DEFINE n == Len(node) + 1
           cell == [next |-> Null, prev |-> IF first = Null THEN Null ELSE last,
                    msg |-> m]
           R == Cells(n)
<1>1. Len(node) \in Nat /\ n \in Nat /\ DOMAIN node = 1 .. Len(node)
  BY TypeFacts DEF QInv
<1>2. \A i \in 1 .. Len(node) : node[i] \in R
  BY <1>1, TypeFacts, CellsGrow DEF QInv
<1>3. cell \in R
  <2>1. last \in Ptr(n) /\ Null \in Ptr(n)
    BY <1>1, TypeFacts DEF QInv, Ptr
  <2>2. QED BY <2>1 DEF Cells
<1>4. CASE first = Null
  <2>1. node' = Append(node, cell)
    BY <1>4 DEF Add
  <2>2. node \in Seq(R)
    <3> HIDE DEF R
    <3>1. node \in Seq(Cells(Len(node)))
      BY TypeFacts DEF QInv
    <3>2. QED BY <3>1, <1>1, <1>2
  <2>3. /\ node' \in Seq(R) /\ Len(node') = n /\ DOMAIN node' = 1 .. n
        /\ node'[n] = cell /\ \A i \in 1 .. Len(node) : node'[i] = node[i]
    <3> HIDE DEF R, cell
    <3>1. QED BY <2>1, <2>2, <1>1, <1>3
  <2>4. cell.next = Null /\ cell.prev = Null /\ cell.msg = m
    BY <1>4
  <2>5. QED
    <3> HIDE DEF cell
    <3>1. QED BY <2>3, <2>4, <1>4
<1>5. CASE first # Null
  <2> DEFINE linked == [node EXCEPT ![last].next = n]
  <2>1. node' = Append(linked, cell)
    BY <1>5 DEF Add
  <2>2. last \in 1 .. Len(node)
    <3>1. PICK c \in Rows : Linked(c)
      BY ChainFacts
    <3>2. QED BY <1>5, <3>1, Ends
  <2>3. linked = [i \in 1 .. Len(node) |->
                    IF i = last THEN [node[last] EXCEPT !.next = n] ELSE node[i]]
    BY <1>1, <2>2
  <2>4. /\ [node[last] EXCEPT !.next = n] \in R
        /\ [node[last] EXCEPT !.next = n].next = n
        /\ [node[last] EXCEPT !.next = n].prev = node[last].prev
        /\ [node[last] EXCEPT !.next = n].msg = node[last].msg
    <3>1. node[last] \in Cells(n) /\ n \in Ptr(n)
      BY <1>1, <1>2, <2>2 DEF Ptr
    <3>2. QED BY <3>1 DEF Cells
  <2>5. /\ linked \in Seq(R) /\ Len(linked) = Len(node) /\ DOMAIN linked = 1 .. Len(node)
    <3>1. linked \in [1 .. Len(node) -> R]
      <4> HIDE DEF R
      <4>1. QED BY <2>3, <2>4, <1>2
    <3>2. QED
      <4> HIDE DEF R, linked
      <4>1. QED BY <3>1, <1>1
  <2>6. /\ node' \in Seq(R) /\ Len(node') = n /\ DOMAIN node' = 1 .. n
        /\ node'[n] = cell /\ \A i \in 1 .. Len(node) : node'[i] = linked[i]
    <3> HIDE DEF R, cell, linked
    <3>1. QED BY <2>1, <2>5, <1>1, <1>3
  <2>7. /\ linked[last].next = n /\ linked[last].prev = node[last].prev
        /\ linked[last].msg = node[last].msg
    BY <2>2, <2>3, <2>4
  <2>8. \A i \in 1 .. Len(node) : i # last => linked[i] = node[i]
    BY <2>3
  <2>9. cell.next = Null /\ cell.prev = last /\ cell.msg = m
    BY <1>5
  <2>10. QED
    <3> HIDE DEF R, cell, linked
    <3>1. \A i \in 1 .. Len(node) :
              /\ node'[i].msg = node[i].msg /\ node'[i].prev = node[i].prev
              /\ i # last => node'[i].next = node[i].next
      BY <2>6, <2>7, <2>8
    <3>2. node'[last].next = n
      BY <2>2, <2>6, <2>7
    <3>3. QED BY <3>1, <3>2, <2>6, <2>9, <1>5 DEF R
<1>6. QED BY <1>4, <1>5

\* msgqueue_add puts a message at the end.
LEMMA AddStep ==
  ASSUME QInv, NEW m \in Msgs, Add(m), NEW c \in Rows, Linked(c)
  PROVE  /\ QInv' /\ size < Capacity
         /\ \E d \in Rows' : Linked(d)' /\ Messages(d)' = Append(Messages(c), m)
<1> DEFINE n == Len(node) + 1
<1>1. /\ size # Capacity /\ last' = n
      /\ first' = IF first = Null THEN n ELSE first
      /\ size' = (size + 1) % SizeMod /\ out' = out
      /\ use # "both" /\ use' = use /\ use \in Uses
  BY DEF Add, QInv, TypeOK
<1>2. /\ size \in 0 .. Capacity /\ size \in Nat /\ Len(node) \in Nat /\ n \in Nat
      /\ first \in Ptr(Len(node)) /\ out \in Msgs \union {NoMsg}
      /\ Capacity \in Nat /\ n # Null
  BY TypeFacts, MsgQueueAssumption DEF QInv, Null
<1>3. size + 1 \in 0 .. Capacity /\ size' = size + 1 /\ size < Capacity
  BY <1>1, <1>2, NoWrap
<1>4. /\ node' \in Seq(Cells(n)) /\ Len(node') = n /\ DOMAIN node' = 1 .. n
      /\ node'[n].next = Null /\ node'[n].msg = m
      /\ first = Null => node'[n].prev = Null
      /\ first # Null => node'[n].prev = last /\ node'[last].next = n
      /\ \A i \in 1 .. Len(node) :
           /\ node'[i].msg = node[i].msg /\ node'[i].prev = node[i].prev
           /\ first = Null \/ i # last => node'[i].next = node[i].next
  BY AddedNode
<1>5. /\ size = 0 <=> first = Null
      /\ size # 0 => /\ first = c[1] /\ last = c[size]
                     /\ first \in 1 .. Len(node) /\ last \in 1 .. Len(node)
      /\ \A i \in 1 .. size : i # size => c[i] # last
  BY Ends
<1>6. TypeOK'
  <2>1. first' \in Ptr(n) /\ last' \in Ptr(n)
    BY <1>1, <1>2 DEF Ptr
  <2>2. node' \in Seq([next : {Null} \union DOMAIN node', prev : {Null} \union DOMAIN node',
                       msg : Msgs])
    BY <1>4 DEF Cells, Ptr
  <2>3. QED BY <2>1, <2>2, <1>1, <1>2, <1>3, <1>4 DEF TypeOK, Ptr
<1>7. \A i \in 1 .. size : c[i] \in 1 .. Len(node) /\ c[i] < n
  BY <1>2 DEF Rows
<1>8. PICK d : d = [i \in 1 .. size + 1 |-> IF i = size + 1 THEN n ELSE c[i]]
  OBVIOUS
<1>9. /\ d[size + 1] = n
      /\ \A i \in 1 .. size : i # size + 1 /\ d[i] = c[i]
      /\ \A i \in 1 .. size + 1 : i # size + 1 => i \in 1 .. size
  BY <1>2, <1>8
<1>10. d \in [1 .. size + 1 -> 1 .. n]
  <2>1. ASSUME NEW i \in 1 .. size + 1
        PROVE  (IF i = size + 1 THEN n ELSE c[i]) \in 1 .. n
    <3>1. i = size + 1 \/ i \in 1 .. size
      BY <1>2
    <3>2. QED BY <3>1, <1>2, <1>7
  <2>2. QED BY <1>8, <2>1
<1>11. Linked(d)'
  <2>1. first' = d[1] /\ last' = d[size + 1]
    <3>1. size = 0 => d[1] = n
      BY <1>9
    <3>2. size # 0 => d[1] = c[1]
      BY <1>2, <1>9
    <3>3. QED BY <1>1, <1>5, <1>9, <3>1, <3>2
  <2>2. ASSUME NEW i \in 1 .. size + 1, NEW j \in 1 .. size + 1, i < j
        PROVE  d[i] < d[j]
    <3>1. i \in 1 .. size /\ d[i] = c[i]
      BY <1>2, <1>9, <2>2
    <3>2. CASE j = size + 1
      BY <1>7, <1>9, <3>1, <3>2
    <3>3. CASE j # size + 1
      <4>1. j \in 1 .. size /\ d[j] = c[j]
        BY <1>2, <1>9, <3>3
      <4>2. QED BY <2>2, <3>1, <4>1 DEF Linked
    <3>4. QED BY <3>2, <3>3
  <2>3. ASSUME NEW i \in 1 .. size
        PROVE  node'[d[i]].next = d[i + 1] /\ node'[d[i + 1]].prev = d[i]
    <3>1. size # 0 /\ first # Null /\ i \in Nat
      BY <1>2, <1>5, <2>3
    <3>2. d[i] = c[i]
      BY <1>9, <2>3
    <3>3. CASE i = size
      <4>1. d[i + 1] = n
        BY <1>2, <1>9, <3>3
      <4>2. d[i] = last
        BY <1>5, <3>1, <3>2, <3>3
      <4>3. QED BY <1>4, <3>1, <4>1, <4>2
    <3>4. CASE i # size
      <4>1. i \in 1 .. size - 1 /\ i + 1 \in 1 .. size /\ i + 1 # size + 1
        BY <1>2, <2>3, <3>4
      <4>2. d[i + 1] = c[i + 1]
        BY <1>9, <4>1
      <4>3. node[c[i]].next = c[i + 1] /\ node[c[i + 1]].prev = c[i]
        BY <4>1 DEF Linked
      <4>4. c[i] # last /\ c[i] \in 1 .. Len(node) /\ c[i + 1] \in 1 .. Len(node)
        BY <1>5, <1>7, <2>3, <3>4, <4>1
      <4>5. node'[c[i]].next = node[c[i]].next /\ node'[c[i + 1]].prev = node[c[i + 1]].prev
        BY <1>4, <4>4
      <4>6. QED BY <3>2, <4>2, <4>3, <4>5
    <3>5. QED BY <3>3, <3>4
  <2>4. size + 1 # 0 /\ size + 1 - 1 = size
    BY <1>2
  <2>5. QED BY <1>2, <1>3, <2>1, <2>2, <2>3, <2>4, LinkedNext
<1>12. d \in Rows'
  BY <1>3, <1>4, <1>10 DEF Rows
<1>13. LinkedBothWays'
  <2>1. node'[last'].next = Null
    BY <1>1, <1>4
  <2>2. use' = "edit" => node'[first'].prev = Null
    <3>1. CASE first = Null
      BY <1>1, <1>4, <3>1
    <3>2. CASE first # Null
      <4>1. use = "edit" => node[first].prev = Null
        BY <3>2, ChainFacts
      <4>2. QED BY <1>1, <1>4, <1>5, <3>2, <4>1
    <3>3. QED BY <3>1, <3>2
  <2>3. ASSUME NEW k \in 1 .. n
        PROVE  node'[k].next \in {Null} \union (k + 1 .. n)
    <3>1. CASE k = n
      BY <1>4, <3>1
    <3>2. CASE k # n
      <4>1. k \in 1 .. Len(node)
        BY <1>2, <2>3, <3>2
      <4>2. node[k].next \in {Null} \union (k + 1 .. n)
        <5>1. node[k].next \in {Null} \union (k + 1 .. Len(node))
          BY <4>1, ChainFacts
        <5>2. k + 1 .. Len(node) \subseteq k + 1 .. n
          BY <1>2, <4>1
        <5>3. QED BY <5>1, <5>2
      <4>3. n \in k + 1 .. n
        BY <1>2, <4>1
      <4>4. node'[k].next \in {n, node[k].next}
        BY <1>4, <4>1
      <4>5. QED BY <4>2, <4>3, <4>4
    <3>3. QED BY <3>1, <3>2
  <2>4. \E e \in [1 .. size' -> DOMAIN node'] : Linked(e)'
    BY <1>3, <1>4, <1>11, <1>12 DEF Rows
  <2>5. QED BY <1>4, <2>1, <2>2, <2>3, <2>4 DEF LinkedBothWays
<1>14. Messages(d)' = Append(Messages(c), m)
  <2> DEFINE s == Messages(c)
  <2>1. s \in Seq(Msgs) /\ Len(s) = size /\ \A i \in 1 .. size : s[i] = node[c[i]].msg
    BY MessagesFacts
  <2> HIDE DEF s
  <2>2. Append(s, m) = [i \in 1 .. size + 1 |-> IF i = size + 1 THEN m ELSE s[i]]
    BY <2>1, AppendIs
  <2>3. ASSUME NEW i \in 1 .. size + 1
        PROVE  node'[d[i]].msg = IF i = size + 1 THEN m ELSE s[i]
    <3>1. CASE i = size + 1
      BY <1>4, <1>9, <3>1
    <3>2. CASE i # size + 1
      <4>1. i \in 1 .. size /\ d[i] = c[i]
        BY <1>2, <1>9, <3>2
      <4>2. node'[c[i]].msg = node[c[i]].msg
        BY <1>4, <1>7, <4>1
      <4>3. QED BY <2>1, <3>2, <4>1, <4>2
    <3>3. QED BY <3>1, <3>2
  <2>4. Messages(d)' = [i \in 1 .. size + 1 |-> node'[d[i]].msg]
    BY <1>3 DEF Messages
  <2>5. Messages(d)' = Append(s, m)
    BY <2>2, <2>3, <2>4
  <2>6. QED BY <2>5 DEF s
<1>15. QED BY <1>1, <1>3, <1>6, <1>11, <1>12, <1>13, <1>14 DEF QInv

\* msgqueue_deq delivers the first message and takes it off the row.
LEMMA DeqStep ==
  ASSUME QInv, Deq, NEW c \in Rows, Linked(c)
  PROVE  /\ QInv' /\ size # 0 /\ out' = Messages(c)[1]
         /\ \E d \in Rows' : Linked(d)' /\ Messages(d)' = Tail(Messages(c))
<1>1. /\ first # Null /\ node' = node /\ out' = node[first].msg
      /\ first' = node[first].next /\ last' = IF first' = Null THEN Null ELSE last
      /\ size' = (size - 1) % SizeMod
      /\ use = "read" /\ use' = use /\ use \in Uses
  BY MsgQueueAssumption DEF Deq, QInv, TypeOK
<1>2. /\ size \in 0 .. Capacity /\ size \in Nat /\ Len(node) \in Nat
      /\ DOMAIN node = 1 .. Len(node) /\ Capacity \in Nat
      /\ \A i \in 1 .. size : c[i] \in 1 .. Len(node)
  BY TypeFacts, MsgQueueAssumption DEF QInv, Rows
<1>3. /\ size # 0 /\ size >= 1 /\ 1 \in 1 .. size /\ size \in 1 .. size
      /\ first = c[1] /\ last = c[size]
      /\ first \in 1 .. Len(node) /\ last \in 1 .. Len(node)
  BY <1>1, Ends
<1>4. PICK k \in Nat : k = size - 1
  BY <1>2, <1>3
<1>5. size' = k /\ k \in 0 .. Capacity
  <2>1. size - 1 \in 0 .. Capacity
    BY <1>2, <1>3
  <2>2. QED BY <2>1, <1>1, <1>4, NoWrap
<1>6. PICK d : d = [i \in 1 .. k |-> c[i + 1]]
  OBVIOUS
<1>7. /\ \A i \in 1 .. k : i + 1 \in 1 .. size /\ i + 1 # 1 /\ i \in 1 .. size - 1 /\ d[i] = c[i + 1]
      /\ k # 0 => 1 \in 1 .. size - 1 /\ d[1] = c[1 + 1] /\ d[k] = c[size]
  BY <1>2, <1>3, <1>4, <1>6
<1>8. /\ k = 0 => first' = Null /\ last' = Null
      /\ k # 0 => first' = d[1] /\ last' = d[k]
  <2>1. CASE k = 0
    <3>1. first = last /\ node[last].next = Null
      BY <1>1, <1>2, <1>3, <1>4, <2>1, ChainFacts
    <3>2. QED BY <1>1, <2>1, <3>1
  <2>2. CASE k # 0
    <3>1. node[c[1]].next = c[1 + 1]
      BY <1>7, <2>2 DEF Linked
    <3>2. c[1 + 1] \in 1 .. Len(node)
      BY <1>2, <1>7, <2>2
    <3>3. c[1 + 1] # Null
      BY <1>2, <3>2 DEF Null
    <3>4. QED BY <1>1, <1>3, <1>7, <2>2, <3>1, <3>3
  <2>3. QED BY <2>1, <2>2
<1>9. Linked(d)'
  <2>1. ASSUME NEW i \in 1 .. k, NEW j \in 1 .. k, i < j
        PROVE  d[i] < d[j]
    <3>1. /\ i + 1 \in 1 .. size /\ j + 1 \in 1 .. size /\ i + 1 < j + 1
          /\ d[i] = c[i + 1] /\ d[j] = c[j + 1]
      BY <1>7, <2>1
    <3>2. QED BY <3>1 DEF Linked
  <2>2. ASSUME NEW i \in 1 .. k - 1
        PROVE  node'[d[i]].next = d[i + 1] /\ node'[d[i + 1]].prev = d[i]
    <3>1. i \in 1 .. k /\ i + 1 \in 1 .. k /\ i + 1 \in 1 .. size - 1
      BY <1>4, <1>2, <2>2
    <3>2. node[c[i + 1]].next = c[i + 1 + 1] /\ node[c[i + 1 + 1]].prev = c[i + 1]
      BY <3>1 DEF Linked
    <3>3. d[i] = c[i + 1] /\ d[i + 1] = c[i + 1 + 1]
      BY <1>7, <3>1
    <3>4. QED BY <1>1, <3>2, <3>3
  <2>3. QED BY <1>5, <1>8, <2>1, <2>2, LinkedNext
<1>10. d \in Rows'
  <2>1. \A i \in 1 .. k : c[i + 1] \in 1 .. Len(node)
    BY <1>2, <1>7
  <2>2. d \in [1 .. k -> 1 .. Len(node)]
    BY <1>6, <2>1
  <2>3. QED BY <1>1, <1>5, <2>2 DEF Rows
<1>11. node[first].msg \in Msgs
  BY <1>3, TypeFacts DEF QInv, Cells
<1>12. TypeOK'
  <2>1. first' \in Ptr(Len(node)) /\ last' \in Ptr(Len(node))
    <3>1. node[first] \in Cells(Len(node))
      BY <1>3, TypeFacts DEF QInv
    <3>2. first' \in Ptr(Len(node))
      BY <1>1, <3>1 DEF Cells
    <3>3. QED BY <1>1, <1>3, <3>2 DEF Ptr
  <2>2. node \in Seq([next : {Null} \union DOMAIN node, prev : {Null} \union DOMAIN node,
                      msg : Msgs])
    BY DEF QInv, TypeOK
  <2>3. QED BY <2>1, <2>2, <1>1, <1>2, <1>5, <1>11 DEF TypeOK, Ptr
<1>13. LinkedBothWays'
  <2>1. first' # Null => node[last'].next = Null
    <3>1. node[last].next = Null
      BY <1>1, ChainFacts
    <3>2. QED BY <1>1, <3>1
  <2>2. \E e \in [1 .. size' -> DOMAIN node'] : Linked(e)'
    BY <1>1, <1>2, <1>9, <1>10 DEF Rows
  <2>3. \A n \in DOMAIN node : node[n].next \in {Null} \union (n + 1 .. Len(node))
    BY <1>2, ChainFacts
  <2>4. QED BY <1>1, <2>1, <2>2, <2>3 DEF LinkedBothWays
<1>14. Messages(d)' = Tail(Messages(c)) /\ out' = Messages(c)[1]
  <2> DEFINE s == Messages(c)
             t == [i \in 1 .. k |-> node[d[i]].msg]
  <2>1. /\ s \in Seq(Msgs) /\ Len(s) = size
        /\ \A i \in 1 .. size : s[i] = node[c[i]].msg /\ node[c[i]].msg \in Msgs
    BY MessagesFacts
  <2>2. Messages(d)' = t
    BY <1>1, <1>5 DEF Messages
  <2>3. \A i \in 1 .. k : t[i] = node[c[i + 1]].msg /\ t[i] = s[i + 1] /\ t[i] \in Msgs
    <3> HIDE DEF s
    <3>1. QED BY <1>7, <2>1
  <2>4. t \in [1 .. k -> Msgs]
    BY <2>3
  <2> HIDE DEF s, t
  <2>5. t \in Seq(Msgs) /\ Len(t) = k
    BY <1>4, <2>4
  <2>6. s # <<>>
    BY <1>3, <2>1
  <2>7. /\ Tail(s) \in Seq(Msgs) /\ Len(Tail(s)) = size - 1
        /\ \A i \in 1 .. size - 1 : Tail(s)[i] = s[i + 1]
    BY <2>1, <2>6, HeadTailProperties
  <2>8. t = Tail(s)
    BY <1>4, <2>3, <2>5, <2>7, SeqEqual
  <2>9. out' = s[1]
    BY <1>1, <1>3, <2>1
  <2>10. QED BY <2>2, <2>8, <2>9 DEF s
<1>15. QED BY <1>1, <1>3, <1>9, <1>10, <1>12, <1>13, <1>14 DEF QInv

\* msgqueue_undo takes the latest message off the row: prev of the message before
\* it is still what msgqueue_add made it, and prev of the first leads nowhere.
LEMMA UndoStep ==
  ASSUME QInv, Undo, NEW c \in Rows, Linked(c)
  PROVE  /\ QInv' /\ size # 0 /\ out' = out
         /\ \E d \in Rows' :
              Linked(d)' /\ Messages(d)' = SubSeq(Messages(c), 1, size - 1)
<1>1. /\ last # Null /\ node' = node /\ out' = out
      /\ last' = node[last].prev /\ first' = IF last' = Null THEN Null ELSE first
      /\ size' = (size - 1) % SizeMod
      /\ use = "edit" /\ use' = use /\ use \in Uses
  BY MsgQueueAssumption DEF Undo, QInv, TypeOK
<1>2. /\ size \in 0 .. Capacity /\ size \in Nat /\ Len(node) \in Nat
      /\ DOMAIN node = 1 .. Len(node) /\ Capacity \in Nat
      /\ \A i \in 1 .. size : c[i] \in 1 .. Len(node)
  BY TypeFacts, MsgQueueAssumption DEF QInv, Rows
<1>3. /\ size # 0 /\ size >= 1 /\ 1 \in 1 .. size /\ size \in 1 .. size /\ first # Null
      /\ first = c[1] /\ last = c[size]
      /\ first \in 1 .. Len(node) /\ last \in 1 .. Len(node)
  BY <1>1, Ends
<1>4. PICK k \in Nat : k = size - 1
  BY <1>2, <1>3
<1>5. size' = k /\ k \in 0 .. Capacity
  <2>1. size - 1 \in 0 .. Capacity
    BY <1>2, <1>3
  <2>2. QED BY <2>1, <1>1, <1>4, NoWrap
<1>6. PICK d : d = [i \in 1 .. k |-> c[i]]
  OBVIOUS
<1>7. /\ \A i \in 1 .. k : i \in 1 .. size /\ d[i] = c[i]
      /\ k # 0 => k \in 1 .. size - 1 /\ k + 1 = size /\ d[1] = c[1] /\ d[k] = c[k]
  BY <1>2, <1>3, <1>4, <1>6
<1>8. /\ k = 0 => first' = Null /\ last' = Null
      /\ k # 0 => first' = d[1] /\ last' = d[k]
  <2>1. CASE k = 0
    <3>1. first = last /\ node[first].prev = Null
      BY <1>1, <1>2, <1>3, <1>4, <2>1, ChainFacts
    <3>2. QED BY <1>1, <2>1, <3>1
  <2>2. CASE k # 0
    <3>1. node[c[k + 1]].prev = c[k]
      BY <1>7, <2>2 DEF Linked
    <3>2. c[k] \in 1 .. Len(node)
      BY <1>2, <1>7, <2>2
    <3>3. c[k] # Null
      BY <1>2, <3>2 DEF Null
    <3>4. QED BY <1>1, <1>3, <1>7, <2>2, <3>1, <3>3
  <2>3. QED BY <2>1, <2>2
<1>9. Linked(d)'
  <2>1. ASSUME NEW i \in 1 .. k, NEW j \in 1 .. k, i < j
        PROVE  d[i] < d[j]
    <3>1. i \in 1 .. size /\ j \in 1 .. size /\ d[i] = c[i] /\ d[j] = c[j]
      BY <1>7
    <3>2. QED BY <2>1, <3>1 DEF Linked
  <2>2. ASSUME NEW i \in 1 .. k - 1
        PROVE  node'[d[i]].next = d[i + 1] /\ node'[d[i + 1]].prev = d[i]
    <3>1. i \in 1 .. k /\ i + 1 \in 1 .. k /\ i \in 1 .. size - 1
      BY <1>4, <1>2, <2>2
    <3>2. node[c[i]].next = c[i + 1] /\ node[c[i + 1]].prev = c[i]
      BY <3>1 DEF Linked
    <3>3. d[i] = c[i] /\ d[i + 1] = c[i + 1]
      BY <1>7, <3>1
    <3>4. QED BY <1>1, <3>2, <3>3
  <2>3. QED BY <1>5, <1>8, <2>1, <2>2, LinkedNext
<1>10. d \in Rows'
  <2>1. \A i \in 1 .. k : c[i] \in 1 .. Len(node)
    BY <1>2, <1>7
  <2>2. d \in [1 .. k -> 1 .. Len(node)]
    BY <1>6, <2>1
  <2>3. QED BY <1>1, <1>5, <2>2 DEF Rows
<1>11. TypeOK'
  <2>1. first' \in Ptr(Len(node)) /\ last' \in Ptr(Len(node))
    <3>1. node[last] \in Cells(Len(node))
      BY <1>3, TypeFacts DEF QInv
    <3>2. last' \in Ptr(Len(node))
      BY <1>1, <3>1 DEF Cells
    <3>3. QED BY <1>1, <1>3, <3>2 DEF Ptr
  <2>2. node \in Seq([next : {Null} \union DOMAIN node, prev : {Null} \union DOMAIN node,
                      msg : Msgs])
    BY DEF QInv, TypeOK
  <2>3. out \in Msgs \union {NoMsg}
    BY TypeFacts DEF QInv
  <2>4. QED BY <2>1, <2>2, <2>3, <1>1, <1>2, <1>5 DEF TypeOK, Ptr
<1>12. LinkedBothWays'
  <2>1. first' # Null => node[first'].prev = Null
    <3>1. node[first].prev = Null
      BY <1>1, <1>3, ChainFacts
    <3>2. QED BY <1>1, <3>1
  <2>2. \E e \in [1 .. size' -> DOMAIN node'] : Linked(e)'
    BY <1>1, <1>2, <1>9, <1>10 DEF Rows
  <2>3. \A n \in DOMAIN node : node[n].next \in {Null} \union (n + 1 .. Len(node))
    BY <1>2, ChainFacts
  <2>4. QED BY <1>1, <2>1, <2>2, <2>3 DEF LinkedBothWays
<1>13. Messages(d)' = SubSeq(Messages(c), 1, size - 1)
  <2> DEFINE s == Messages(c)
             t == [i \in 1 .. k |-> node[d[i]].msg]
  <2>1. /\ s \in Seq(Msgs) /\ Len(s) = size
        /\ \A i \in 1 .. size : s[i] = node[c[i]].msg /\ node[c[i]].msg \in Msgs
    BY MessagesFacts
  <2>2. Messages(d)' = t
    BY <1>1, <1>5 DEF Messages
  <2>3. \A i \in 1 .. k : t[i] = node[c[i]].msg /\ t[i] = s[i] /\ t[i] \in Msgs
    <3> HIDE DEF s
    <3>1. QED BY <1>7, <2>1
  <2>4. t \in [1 .. k -> Msgs]
    BY <2>3
  <2> HIDE DEF s, t
  <2>5. t \in Seq(Msgs) /\ Len(t) = k
    BY <1>4, <2>4
  <2>6. /\ SubSeq(s, 1, k) \in Seq(Msgs) /\ Len(SubSeq(s, 1, k)) = k
        /\ \A i \in 1 .. k : SubSeq(s, 1, k)[i] = s[i]
    BY <1>2, <1>4, <2>1
  <2>7. t = SubSeq(s, 1, k)
    BY <2>3, <2>5, <2>6, SeqEqual
  <2>8. QED BY <1>4, <2>2, <2>7 DEF s
<1>14. QED BY <1>1, <1>3, <1>9, <1>10, <1>11, <1>12, <1>13 DEF QInv

\* msgqueue_peeklast delivers the latest message and changes nothing.
LEMMA PeekLastStep ==
  ASSUME QInv, PeekLast, NEW c \in Rows, Linked(c)
  PROVE  /\ QInv' /\ size # 0 /\ out' = Messages(c)[size]
         /\ c \in Rows' /\ Linked(c)' /\ Messages(c)' = Messages(c)
<1>1. /\ size # 0 /\ last # Null /\ out' = node[last].msg
      /\ node' = node /\ first' = first /\ last' = last /\ size' = size /\ use' = use
  BY DEF PeekLast
<1>2. last = c[size] /\ size \in 1 .. size /\ last \in 1 .. Len(node)
  BY <1>1, Ends
<1>3. out' \in Msgs /\ out' = Messages(c)[size]
  BY <1>1, <1>2, MessagesFacts
<1>4. TypeOK'
  BY <1>1, <1>3 DEF QInv, TypeOK
<1>5. LinkedBothWays' /\ Linked(c)' /\ c \in Rows' /\ Messages(c)' = Messages(c)
  BY <1>1 DEF QInv, LinkedBothWays, Linked, Rows, Messages
<1>6. QED BY <1>1, <1>3, <1>4, <1>5 DEF QInv

\* msgqueue_clear leaves an empty queue, whatever was in it.
LEMMA ClearStep ==
  ASSUME QInv, Clear, NEW c \in Rows, Linked(c)
  PROVE  /\ QInv' /\ out' = out
         /\ \E d \in Rows' : Linked(d)' /\ Messages(d)' = <<>>
<1>1. /\ first' = Null /\ node' = node /\ out' = out
      /\ last' = Null /\ size' = 0 /\ use' = use
  BY Ends DEF Clear
<1>2. TypeOK'
  BY <1>1, MsgQueueAssumption DEF QInv, TypeOK
<1>3. PICK d : d = [i \in 1 .. 0 |-> 0]
  OBVIOUS
<1>4. d \in [1 .. 0 -> 1 .. Len(node)] /\ Linked(d)'
  BY <1>1, <1>3, LinkedNext
<1>5. d \in Rows'
  BY <1>1, <1>4 DEF Rows
<1>6. LinkedBothWays'
  <2>1. \E e \in [1 .. size' -> DOMAIN node'] : Linked(e)'
    <3>1. d \in [1 .. 0 -> DOMAIN node]
      BY <1>3
    <3>2. QED BY <1>1, <1>4, <3>1
  <2>2. QED BY <1>1, <2>1 DEF QInv, LinkedBothWays
<1>7. Messages(d)' = <<>>
  <2>1. Messages(d)' = [i \in 1 .. 0 |-> node'[d[i]].msg]
    BY <1>1 DEF Messages
  <2>2. QED BY <2>1
<1>8. QED BY <1>1, <1>2, <1>4, <1>5, <1>6, <1>7 DEF QInv

-----------------------------------------------------------------------------
(* Content and Back, which the runs use, are recursive functions: what a walk *)
(* along the pointers finds.  On a row they find its messages and its first.  *)

\* Where the walk along the next pointers stops.
Stop(n) == n = last \/ node[n].next = Null

\* What the walk finds from n on, f telling what it finds behind.
Step(f, n) == IF Stop(n) THEN <<node[n].msg>> ELSE <<node[n].msg>> \o f[node[n].next]

\* f is what Content calls From.
FromIs(f) ==
  f = [n \in DOMAIN node |->
         IF n = last \/ node[n].next = Null THEN <<node[n].msg>>
         ELSE <<node[n].msg>> \o f[node[n].next]]

LEMMA FromAt ==
  ASSUME NEW f
  PROVE  FromIs(f) <=> f = [n \in DOMAIN node |-> Step(f, n)]
  BY DEF FromIs, Step, Stop

\* The least of some numbers.
LEMMA Least ==
  ASSUME NEW S \in SUBSET Nat, S # {}
  PROVE  \E k \in S : \A j \in S : k <= j
<1>1. IsWellFoundedOn(OpToRel(<, Nat), Nat)
  BY NatLessThanWellFounded
<1>2. PICK x \in S : \A y \in S : <<y, x>> \notin OpToRel(<, Nat)
  BY <1>1, WFMin
<1>3. \A y \in S : x <= y
  <2>1. SUFFICES ASSUME NEW y \in S, y < x PROVE FALSE
    OBVIOUS
  <2>2. <<y, x>> \in Nat \X Nat /\ <<y, x>>[1] < <<y, x>>[2]
    BY <2>1
  <2>3. <<y, x>> \in OpToRel(<, Nat)
    BY <2>2 DEF OpToRel
  <2>4. QED BY <1>2, <2>3
<1>4. QED BY <1>3

\* What holds for 0, and for n + 1 when it holds for n, holds as far as m.
LEMMA Upwards ==
  ASSUME NEW m \in Nat, NEW S, 0 \in S, \A n \in 0 .. m : n \in S /\ n < m => n + 1 \in S
  PROVE  0 .. m \subseteq S
<1>1. SUFFICES ASSUME (0 .. m) \ S # {} PROVE FALSE
  OBVIOUS
<1>2. PICK x \in (0 .. m) \ S : \A j \in (0 .. m) \ S : x <= j
  <2>1. (0 .. m) \ S \in SUBSET Nat
    OBVIOUS
  <2>2. QED BY <1>1, <2>1, Least
<1>3. x - 1 \in 0 .. m /\ x - 1 < m /\ x - 1 + 1 = x /\ x - 1 < x
  BY <1>2
<1>4. x - 1 \in S
  <2>1. SUFFICES ASSUME x - 1 \notin S PROVE FALSE
    OBVIOUS
  <2>2. x <= x - 1
    BY <1>2, <1>3, <2>1
  <2>3. QED BY <1>3, <2>2
<1>5. QED BY <1>2, <1>3, <1>4

\* No pointer leads back, so the walk can be told from the latest message down.
LEMMA FromExists ==
  ASSUME QInv
  PROVE  FromIs(CHOOSE f : FromIs(f))
<1> DEFINE L == Len(node)
           Tells(f, k) == f = [n \in L - k + 1 .. L |-> Step(f, n)]
           S == {k \in 0 .. L : \E f : Tells(f, k)}
<1>1. L \in Nat /\ DOMAIN node = 1 .. L
  BY TypeFacts DEF QInv
<1>2. 0 \in S
  <2> DEFINE e == [n \in {} |-> 0]
  <2>1. L - 0 + 1 .. L = {}
    BY <1>1
  <2>2. e = [n \in {} |-> Step(e, n)]
    OBVIOUS
  <2>3. Tells(e, 0)
    <3> HIDE DEF e
    <3>1. QED BY <2>1, <2>2
  <2>4. QED
    <3> HIDE DEF Tells
    <3>1. QED BY <1>1, <2>3
<1>3. ASSUME NEW k \in 0 .. L, k \in S, k < L
      PROVE  k + 1 \in S
  <2> DEFINE n == L - k
  <2>1. PICK f : Tells(f, k)
    BY <1>3
  <2>0. L \in Nat /\ k \in Nat /\ k < L
    <3> HIDE DEF S
    <3>1. QED BY <1>1, <1>3
  <2>2. /\ n \in 1 .. L /\ L - (k + 1) + 1 = n /\ L - k + 1 = n + 1 /\ k + 1 \in 0 .. L
        /\ \A m \in n .. L : m = n \/ m \in n + 1 .. L
        /\ \A m \in n + 1 .. L : m # n /\ m \in n .. L /\ m \in 1 .. L
    <3> HIDE DEF S, L
    <3>1. n \in 1 .. L /\ L - (k + 1) + 1 = n /\ L - k + 1 = n + 1 /\ k + 1 \in 0 .. L
      BY <2>0
    <3> HIDE DEF n
    <3>2. \A m \in n .. L : m = n \/ m \in n + 1 .. L
      BY <2>0, <3>1
    <3>3. \A m \in n + 1 .. L : m # n /\ m \in n .. L /\ m \in 1 .. L
      BY <2>0, <3>1
    <3>4. QED BY <3>1, <3>2, <3>3
  <2> HIDE DEF n
  <2>3. f = [m \in n + 1 .. L |-> Step(f, m)]
    BY <2>1, <2>2
  <2> DEFINE g == [m \in n .. L |-> IF m = n THEN Step(f, n) ELSE f[m]]
  <2>4. \A m \in n + 1 .. L : g[m] = f[m]
    BY <2>2
  <2>5. ASSUME NEW m \in n .. L
        PROVE  Step(g, m) = Step(f, m)
    <3>1. CASE Stop(m)
      BY <3>1 DEF Step
    <3>2. CASE ~ Stop(m)
      <4>1. m \in 1 .. L
        BY <2>2
      <4>2. node[m].next \in m + 1 .. L
        BY <3>2, <4>1, ChainFacts DEF Stop
      <4>3. node[m].next \in n + 1 .. L
        BY <1>1, <2>2, <2>5, <4>1, <4>2
      <4>4. g[node[m].next] = f[node[m].next]
        BY <2>4, <4>3
      <4>5. QED
        <5> HIDE DEF g
        <5>1. QED BY <4>4 DEF Step
    <3>3. QED BY <3>1, <3>2
  <2>6. ASSUME NEW m \in n .. L
        PROVE  g[m] = Step(f, m)
    <3>1. CASE m = n
      BY <3>1
    <3>2. CASE m # n
      <4>1. m \in n + 1 .. L
        BY <2>2, <3>2
      <4>2. f[m] = Step(f, m)
        BY <2>3, <4>1
      <4>3. QED BY <2>4, <4>1, <4>2
    <3>3. QED BY <3>1, <3>2
  <2>7. g = [m \in n .. L |-> Step(g, m)]
    <3>1. \A m \in n .. L : g[m] = Step(g, m)
      <4> HIDE DEF g
      <4>1. QED BY <2>5, <2>6
    <3>2. g = [m \in n .. L |-> g[m]]
      OBVIOUS
    <3>3. QED
      <4> HIDE DEF g
      <4>1. QED BY <3>1, <3>2
  <2>8. Tells(g, k + 1)
    <3> HIDE DEF g
    <3>1. QED BY <2>2, <2>7
  <2>9. QED BY <2>2, <2>8
<1>4. 0 .. L \subseteq S
  <2> HIDE DEF S, L
  <2>1. QED BY <1>1, <1>2, <1>3, Upwards
<1>5. PICK f : Tells(f, L)
  BY <1>1, <1>4
<1>6. f = [n \in DOMAIN node |-> Step(f, n)]
  <2>1. L - L + 1 = 1
    BY <1>1
  <2>2. QED BY <1>1, <1>5, <2>1
<1>7. FromIs(f)
  BY <1>6, FromAt
<1>8. QED BY <1>7

\* What is left of a row from place j on.
Rest(c, j) == [i \in 1 .. size - j + 1 |-> node[c[j + i - 1]].msg]

LEMMA RestSplits ==
  ASSUME QInv, NEW c \in Rows, NEW j \in 1 .. size
  PROVE  Rest(c, j) = IF j = size THEN <<node[c[j]].msg>>
                      ELSE <<node[c[j]].msg>> \o Rest(c, j + 1)
<1> DEFINE h == <<node[c[j]].msg>>
           r == Rest(c, j + 1)
           w == Rest(c, j)
<1>1. size \in Nat /\ j \in Nat /\ j >= 1 /\ j <= size
  BY TypeFacts DEF QInv
<1>2. \A i \in 1 .. size : node[c[i]].msg \in Msgs
  BY MessagesFacts
<1>3. /\ w \in Seq(Msgs) /\ Len(w) = size - j + 1
      /\ \A i \in 1 .. size - j + 1 : w[i] = node[c[j + i - 1]].msg
  <2>1. \A i \in 1 .. size - j + 1 : j + i - 1 \in 1 .. size
    BY <1>1
  <2>2. w \in [1 .. size - j + 1 -> Msgs] /\ size - j + 1 \in Nat
    BY <1>1, <1>2, <2>1 DEF Rest
  <2>3. \A i \in 1 .. size - j + 1 : w[i] = node[c[j + i - 1]].msg
    BY DEF Rest
  <2> HIDE DEF w
  <2>4. QED BY <2>2, <2>3
<1>4. /\ r \in Seq(Msgs) /\ Len(r) = size - j
      /\ \A i \in 1 .. size - j : r[i] = node[c[j + i]].msg
  <2>1. /\ \A i \in 1 .. size - j : j + i \in 1 .. size /\ j + 1 + i - 1 = j + i
        /\ size - (j + 1) + 1 = size - j /\ size - j \in Nat
    BY <1>1
  <2>2. r = [i \in 1 .. size - j |-> node[c[j + i]].msg]
    BY <2>1 DEF Rest
  <2>3. r \in [1 .. size - j -> Msgs]
    BY <1>2, <2>1, <2>2
  <2>4. \A i \in 1 .. size - j : r[i] = node[c[j + i]].msg
    BY <2>2
  <2> HIDE DEF r
  <2>5. QED BY <2>1, <2>3, <2>4
<1>5. h \in Seq(Msgs) /\ Len(h) = 1 /\ h[1] = node[c[j]].msg
  BY <1>1, <1>2
<1> HIDE DEF h, r, w
<1>6. CASE j = size
  <2>1. /\ Len(w) = 1 /\ w[1] = node[c[j]].msg
    <3>1. size - j + 1 = 1 /\ 1 \in 1 .. 1 /\ j + 1 - 1 = j
      BY <1>1, <1>6
    <3>2. QED BY <1>3, <3>1
  <2>2. w = h
    BY <1>3, <1>5, <2>1, SeqEqual
  <2>3. QED BY <1>6, <2>2 DEF h, w
<1>7. CASE j # size
  <2>1. /\ h \o r \in Seq(Msgs) /\ Len(h \o r) = 1 + (size - j)
        /\ \A i \in 1 .. 1 + (size - j) : (h \o r)[i] = IF i <= 1 THEN h[i] ELSE r[i - 1]
    <3>1. /\ h \o r \in Seq(Msgs) /\ Len(h \o r) = Len(h) + Len(r)
          /\ \A i \in 1 .. Len(h) + Len(r) :
               (h \o r)[i] = IF i <= Len(h) THEN h[i] ELSE r[i - Len(h)]
      BY <1>4, <1>5, ConcatProperties
    <3>2. Len(h) + Len(r) = 1 + (size - j)
      BY <1>4, <1>5
    <3>3. QED BY <1>5, <3>1, <3>2
  <2>2. ASSUME NEW i \in 1 .. size - j + 1
        PROVE  w[i] = (h \o r)[i]
    <3>0. i \in 1 .. 1 + (size - j)
      BY <1>1
    <3>1. CASE i = 1
      <4>1. j + i - 1 = j
        BY <1>1, <3>1
      <4>2. QED BY <1>3, <1>5, <2>1, <3>0, <3>1, <4>1
    <3>2. CASE i # 1
      <4>1. i - 1 \in 1 .. size - j /\ j + (i - 1) = j + i - 1 /\ ~ (i <= 1)
        BY <1>1, <3>2
      <4>2. QED BY <1>3, <1>4, <2>1, <3>0, <4>1
    <3>3. QED BY <3>1, <3>2
  <2>3. Len(w) = Len(h \o r)
    BY <1>1, <1>3, <2>1
  <2>4. w = h \o r
    BY <1>3, <2>1, <2>2, <2>3, SeqEqual
  <2>5. QED BY <1>7, <2>4 DEF h, r, w
<1>8. QED BY <1>6, <1>7

\* The walk finds the messages of the row.
LEMMA ContentIs ==
  ASSUME QInv
  PROVE  \A c \in Rows : Linked(c) => Content = Messages(c)
<1> SUFFICES ASSUME NEW c \in Rows, Linked(c)
             PROVE  Content = Messages(c)
  OBVIOUS
<1>1. /\ size = 0 <=> first = Null
      /\ size # 0 => first = c[1] /\ last = c[size] /\ 1 \in 1 .. size
      /\ \A i \in 1 .. size : i # size => c[i] # last
  BY Ends
<1>2. size \in Nat /\ DOMAIN node = 1 .. Len(node) /\ Len(node) \in Nat
      /\ \A i \in 1 .. size : c[i] \in 1 .. Len(node)
  BY TypeFacts DEF QInv, Rows
<1>3. CASE size = 0
  <2>1. Messages(c) = <<>>
    <3>1. Messages(c) = [i \in 1 .. 0 |-> node[c[i]].msg]
      BY <1>3 DEF Messages
    <3>2. QED BY <3>1
  <2>2. QED BY <1>1, <1>3, <2>1 DEF Content
<1>4. CASE size # 0
  <2> DEFINE f == CHOOSE g : FromIs(g)
             m == size - 1
             S == {k \in 0 .. m : f[c[size - k]] = Rest(c, size - k)}
  <2>1. FromIs(f)
    BY FromExists
  <2>2. Content = f[first]
    BY <1>1, <1>4 DEF Content, FromIs
  <2>3. \A n \in 1 .. Len(node) : f[n] = Step(f, n)
    <3> HIDE DEF f
    <3>1. f = [n \in DOMAIN node |-> Step(f, n)]
      BY <2>1, FromAt
    <3>2. QED BY <1>2, <3>1
  <2> HIDE DEF f
  <2>4. m \in Nat /\ 0 \in 0 .. m /\ m \in 0 .. m /\ size - m = 1 /\ size - 0 = size
        /\ size \in 1 .. size
    BY <1>2, <1>4
  <2>5. 0 \in S
    <3>1. f[c[size]] = <<node[c[size]].msg>>
      BY <1>1, <1>2, <1>4, <2>3, <2>4 DEF Step, Stop
    <3>2. Rest(c, size) = <<node[c[size]].msg>>
      BY <2>4, RestSplits
    <3>3. QED BY <2>4, <3>1, <3>2
  <2>6. ASSUME NEW k \in 0 .. m, k \in S, k < m
        PROVE  k + 1 \in S
    <3> DEFINE j == size - (k + 1)
    <3>1. /\ j \in 1 .. size /\ j \in 1 .. size - 1 /\ j + 1 \in 1 .. size /\ j # size
          /\ j + 1 = size - k /\ k + 1 \in 0 .. m
      BY <1>2, <2>6
    <3>2. f[c[j + 1]] = Rest(c, j + 1)
      BY <2>6, <3>1
    <3> HIDE DEF j
    <3>3. Rest(c, j) = <<node[c[j]].msg>> \o Rest(c, j + 1)
      BY <3>1, RestSplits
    <3>4. node[c[j]].next = c[j + 1]
      BY <3>1 DEF Linked
    <3>5. ~ Stop(c[j])
      <4>1. c[j + 1] # Null
        BY <1>2, <3>1 DEF Null
      <4>2. QED BY <1>1, <3>1, <3>4, <4>1 DEF Stop
    <3>6. f[c[j]] = <<node[c[j]].msg>> \o f[c[j + 1]]
      BY <1>2, <2>3, <3>1, <3>4, <3>5 DEF Step
    <3>7. f[c[j]] = Rest(c, j)
      BY <3>2, <3>3, <3>6
    <3>8. QED BY <3>1, <3>7 DEF j
  <2>7. 0 .. m \subseteq S
    <3> HIDE DEF S, m
    <3>1. QED BY <2>4, <2>5, <2>6, Upwards
  <2>8. f[c[1]] = Rest(c, 1)
    BY <2>4, <2>7
  <2>9. Rest(c, 1) = Messages(c)
    <3>1. size - 1 + 1 = size /\ \A i \in 1 .. size : 1 + i - 1 = i
      BY <1>2
    <3>2. QED BY <3>1 DEF Rest, Messages
  <2>10. QED BY <1>1, <1>4, <2>2, <2>8, <2>9
<1>5. QED BY <1>3, <1>4

\* B is what Back calls B.
BackIs(B) ==
  B = [i \in 0 .. size |->
         IF i = 0 THEN last
         ELSE IF B[i - 1] = Null THEN Null
         ELSE node[B[i - 1]].prev]

LEMMA BackAt ==
  ASSUME NEW B, BackIs(B), NEW k \in 0 .. size
  PROVE  B[k] = IF k = 0 THEN last
                ELSE IF B[k - 1] = Null THEN Null
                ELSE node[B[k - 1]].prev
<1> DEFINE c == [i \in 0 .. size |->
                   IF i = 0 THEN last
                   ELSE IF B[i - 1] = Null THEN Null
                   ELSE node[B[i - 1]].prev]
<1>1. B = c
  BY DEF BackIs
<1>2. c[k] = IF k = 0 THEN last
             ELSE IF B[k - 1] = Null THEN Null
             ELSE node[B[k - 1]].prev
  OBVIOUS
<1>3. QED
  <2> HIDE DEF c
  <2>1. B[k] = c[k]
    BY <1>1
  <2>2. QED BY <1>2, <2>1

\* On a row the prev pointers lead from last back to first.
LEMMA BackToFirst ==
  ASSUME QInv, first # Null
  PROVE  Back[size - 1] = first
<1>1. PICK c \in Rows : Linked(c)
  BY ChainFacts
<1>2. /\ size \in Nat /\ size >= 1 /\ first = c[1] /\ last = c[size]
      /\ Len(node) \in Nat /\ \A i \in 1 .. size : c[i] \in 1 .. Len(node) /\ c[i] # Null
  BY <1>1, Ends, TypeFacts DEF QInv, Rows, Null
<1> DEFINE b == [i \in 0 .. size |-> IF i < size THEN c[size - i] ELSE node[first].prev]
           e == [i \in 0 .. size |->
                   IF i = 0 THEN last
                   ELSE IF b[i - 1] = Null THEN Null
                   ELSE node[b[i - 1]].prev]
<1>3. ASSUME NEW i \in 0 .. size PROVE b[i] = e[i]
  <2>1. CASE i = 0
    <3>1. b[0] = c[size - 0] /\ size - 0 = size
      BY <1>2
    <3>2. e[0] = last
      BY <1>2
    <3>3. QED
      <4> HIDE DEF b, e
      <4>1. QED BY <1>2, <2>1, <3>1, <3>2
  <2>2. CASE i # 0
    <3>1. i - 1 \in 0 .. size /\ i - 1 < size /\ size - (i - 1) \in 1 .. size
      BY <1>2, <2>2
    <3>2. b[i - 1] = c[size - (i - 1)] /\ c[size - (i - 1)] # Null
      BY <1>2, <3>1
    <3>3. e[i] = node[c[size - (i - 1)]].prev
      <4> HIDE DEF b
      <4>1. QED BY <2>2, <3>2
    <3>4. CASE i < size
      <4>1. size - i \in 1 .. size - 1 /\ size - i + 1 = size - (i - 1)
        BY <1>2, <2>2, <3>4
      <4>2. node[c[size - i + 1]].prev = c[size - i]
        BY <1>1, <4>1 DEF Linked
      <4>3. b[i] = c[size - i]
        BY <3>4
      <4>4. QED
        <5> HIDE DEF b, e
        <5>1. QED BY <3>3, <4>1, <4>2, <4>3
    <3>5. CASE ~ (i < size)
      <4>1. size - (i - 1) = 1
        BY <1>2, <3>5
      <4>2. b[i] = node[first].prev
        BY <3>5
      <4>3. QED
        <5> HIDE DEF b, e
        <5>1. QED BY <1>2, <3>3, <4>1, <4>2
    <3>6. QED BY <3>4, <3>5
  <2>3. QED BY <2>1, <2>2
<1>4. BackIs(b)
  <2>1. b = e
    BY <1>3
  <2>2. QED
    <3> HIDE DEF b
    <3>1. QED BY <2>1 DEF BackIs
<1> HIDE DEF b, e
<1> DEFINE B == CHOOSE f : BackIs(f)
           m == size - 1
           S == {i \in 0 .. m : B[i] = c[size - i]}
<1>5. BackIs(B)
  BY <1>4
<1>6. ASSUME NEW k \in 0 .. size PROVE Back[k] = B[k]
  BY DEF Back, BackIs
<1> HIDE DEF B
<1>7. /\ m \in Nat /\ m \in 0 .. m /\ m \in 0 .. size /\ size - m = 1
      /\ 0 \in 0 .. m /\ 0 \in 0 .. size /\ size - 0 = size
  BY <1>2
<1>8. 0 \in S
  <2>1. B[0] = last
    BY <1>5, <1>7, BackAt
  <2>2. QED BY <1>2, <1>7, <2>1
<1>9. ASSUME NEW i \in 0 .. m, i \in S, i < m
      PROVE  i + 1 \in S
  <2>1. /\ i + 1 \in 0 .. size /\ i + 1 \in 0 .. m /\ i + 1 # 0 /\ i + 1 - 1 = i
        /\ size - i \in 1 .. size /\ size - (i + 1) \in 1 .. size - 1
        /\ size - (i + 1) + 1 = size - i
    BY <1>2, <1>9
  <2>2. B[i] = c[size - i] /\ c[size - i] # Null
    BY <1>2, <1>9, <2>1
  <2>3. B[i + 1] = node[c[size - i]].prev
    <3> HIDE DEF S, m
    <3>1. B[i + 1] = IF i + 1 = 0 THEN last
                     ELSE IF B[i + 1 - 1] = Null THEN Null
                     ELSE node[B[i + 1 - 1]].prev
      BY <1>5, <2>1, BackAt
    <3>2. QED BY <2>1, <2>2, <3>1
  <2>4. node[c[size - (i + 1) + 1]].prev = c[size - (i + 1)]
    BY <1>1, <2>1 DEF Linked
  <2>5. B[i + 1] = c[size - (i + 1)]
    BY <2>1, <2>3, <2>4
  <2>6. QED BY <2>1, <2>5
<1>10. 0 .. m \subseteq S
  <2> HIDE DEF S, m
  <2>1. QED BY <1>7, <1>8, <1>9, Upwards
<1>11. B[m] = c[1]
  BY <1>7, <1>10
<1>12. QED BY <1>2, <1>6, <1>7, <1>11

-----------------------------------------------------------------------------
\* A queue starts empty.
LEMMA InitStep ==
  ASSUME "both" \notin Uses, Init
  PROVE  QInv /\ Content = <<>>
<1>1. TypeOK
  BY MsgQueueAssumption DEF Init, TypeOK
<1>2. PICK c : c = [i \in 1 .. 0 |-> 0]
  OBVIOUS
<1>3. c \in [1 .. size -> DOMAIN node] /\ Linked(c)
  BY <1>2 DEF Init, Linked
<1>4. LinkedBothWays
  <2>1. DOMAIN node = {}
    BY DEF Init
  <2>2. QED BY <1>3, <2>1 DEF LinkedBothWays, Init
<1>5. use # "both"
  BY DEF Init
<1>6. QED BY <1>1, <1>4, <1>5 DEF QInv, Init, Content

LEMMA InvStep ==
  ASSUME QInv, [Next]_vars
  PROVE  QInv'
<1>1. PICK c \in Rows : Linked(c)
  BY ChainFacts
<1>2. CASE UNCHANGED vars
  BY <1>2 DEF QInv, TypeOK, LinkedBothWays, Linked, vars
<1>3. ASSUME NEW m \in Msgs, Add(m) PROVE QInv'
  BY <1>1, <1>3, AddStep
<1>4. ASSUME NEW m \in Msgs, AddFull(m) PROVE QInv'
  BY <1>2, <1>4 DEF AddFull
<1>5. CASE Deq
  BY <1>1, <1>5, DeqStep
<1>6. CASE Undo
  BY <1>1, <1>6, UndoStep
<1>7. CASE PeekLast
  BY <1>1, <1>7, PeekLastStep
<1>8. CASE Clear
  BY <1>1, <1>8, ClearStep
<1>9. QED BY <1>2, <1>3, <1>4, <1>5, <1>6, <1>7, <1>8 DEF Next

\* The row and its types hold in every state of such a queue.
LEMMA QueueInvariance ==
  ASSUME "both" \notin Uses
  PROVE  Spec => []QInv
<1>1. Init => QInv
  BY InitStep
<1>2. QInv /\ [Next]_vars => QInv'
  BY InvStep
<1>3. QED BY <1>1, <1>2, PTL DEF Spec

\* What is read and not undone is a row of consecutive messages.
LEMMA ConsecutiveStep ==
  ASSUME QInv, Consecutive, [Next]_vars
  PROVE  Consecutive'
<1>1. /\ Len(node) \in Nat /\ size \in 0 .. Capacity /\ size \in Nat /\ Capacity \in Nat
      /\ first \in Ptr(Len(node)) /\ last \in Ptr(Len(node))
  BY TypeFacts, MsgQueueAssumption DEF QInv
<1>2. SUFFICES ASSUME use' = "read" PROVE Consecutive'
  BY DEF Consecutive
<1>3. use = "read"
  BY <1>2 DEF Next, Add, AddFull, Deq, Undo, PeekLast, Clear, vars
<1>4. /\ first = Null => last = Null /\ size = 0
      /\ first # Null =>
           /\ first \in 1 .. Len(node) /\ last = Len(node)
           /\ size = last - first + 1
           /\ \A n \in first .. last - 1 : node[n].next = n + 1 /\ node[n + 1].prev = n
           /\ node[last].next = Null
  BY <1>3 DEF Consecutive
<1>5. ASSUME NEW m \in Msgs, Add(m) PROVE Consecutive'
  <2> DEFINE n == Len(node) + 1
  <2>1. /\ last' = n /\ first' = IF first = Null THEN n ELSE first
        /\ size' = (size + 1) % SizeMod /\ size # Capacity
    BY <1>5 DEF Add
  <2>2. size' = size + 1 /\ n \in Nat /\ n # Null
    <3>1. size + 1 \in 0 .. Capacity
      BY <1>1, <2>1
    <3>2. QED BY <1>1, <2>1, <3>1, NoWrap DEF Null
  <2>3. /\ Len(node') = n /\ node'[n].next = Null
        /\ first # Null => node'[n].prev = last /\ node'[last].next = n
        /\ \A i \in 1 .. Len(node) :
             /\ node'[i].prev = node[i].prev
             /\ first = Null \/ i # last => node'[i].next = node[i].next
    BY <1>5, AddedNode
  <2>4. CASE first = Null
    <3>1. first' = n /\ last' = n /\ size' = 1 /\ n \in 1 .. Len(node')
      BY <1>1, <1>4, <2>1, <2>2, <2>3, <2>4
    <3>2. QED BY <2>2, <2>3, <3>1 DEF Consecutive
  <2>5. CASE first # Null
    <3>1. /\ first' = first /\ first \in 1 .. n /\ first \in Nat /\ last = n - 1 /\ last' = n
          /\ size' = n - first + 1
      BY <1>1, <1>4, <2>1, <2>2, <2>5
    <3>2. ASSUME NEW k \in first .. n - 1
          PROVE  node'[k].next = k + 1 /\ node'[k + 1].prev = k
      <4>1. CASE k = last
        <5>1. k + 1 = n
          BY <3>1, <4>1, <2>2
        <5>2. QED BY <2>3, <2>5, <4>1, <5>1
      <4>2. CASE k # last
        <5>1. k \in first .. last - 1 /\ k \in 1 .. Len(node) /\ k + 1 \in 1 .. Len(node)
          BY <1>1, <1>4, <2>5, <3>1, <3>2, <4>2
        <5>2. node[k].next = k + 1 /\ node[k + 1].prev = k
          BY <1>4, <2>5, <5>1
        <5>3. node'[k].next = node[k].next /\ node'[k + 1].prev = node[k + 1].prev
          BY <2>3, <4>2, <5>1
        <5>4. QED BY <5>2, <5>3
      <4>3. QED BY <4>1, <4>2
    <3>3. QED BY <2>2, <2>3, <2>5, <3>1, <3>2 DEF Consecutive
  <2>6. QED BY <2>4, <2>5
<1>6. CASE UNCHANGED vars
  BY <1>6 DEF Consecutive, vars
<1>7. ASSUME NEW m \in Msgs, AddFull(m) PROVE Consecutive'
  BY <1>6, <1>7 DEF AddFull
<1>8. CASE Deq
  <2>1. /\ first # Null /\ node' = node /\ first' = node[first].next
        /\ last' = IF first' = Null THEN Null ELSE last
        /\ size' = (size - 1) % SizeMod
    BY <1>8 DEF Deq
  <2>2. size' = size - 1
    <3>1. size - 1 \in 0 .. Capacity
      BY <1>1, <1>4, <2>1
    <3>2. QED BY <2>1, <3>1, NoWrap
  <2>3. CASE first = last
    <3>1. first' = Null /\ last' = Null /\ size' = 0
      BY <1>1, <1>4, <2>1, <2>2, <2>3
    <3>2. QED BY <3>1 DEF Consecutive
  <2>4. CASE first # last
    <3>1. first' = first + 1 /\ first' # Null /\ last' = last
      BY <1>1, <1>4, <2>1, <2>4 DEF Null
    <3>2. /\ first' \in 1 .. Len(node) /\ last' = Len(node)
          /\ size' = last' - first' + 1
      BY <1>1, <1>4, <2>1, <2>2, <2>4, <3>1
    <3>3. \A n \in first' .. last' - 1 : n \in first .. last - 1
      BY <1>1, <1>4, <2>1, <3>1
    <3>4. QED BY <1>4, <2>1, <3>1, <3>2, <3>3 DEF Consecutive
  <2>5. QED BY <2>3, <2>4
<1>9. CASE PeekLast
  BY <1>9 DEF PeekLast, Consecutive
<1>10. CASE Clear
  BY <1>4, <1>10 DEF Clear, Consecutive
<1>11. ~ Undo
  BY <1>3 DEF Undo
<1>12. QED BY <1>5, <1>6, <1>7, <1>8, <1>9, <1>10, <1>11 DEF Next

\* A step of the queue is a step of the FIFO or a stutter.
LEMMA NextStep ==
  ASSUME QInv, [Next]_vars, QInv',
         (\A c \in Rows : Linked(c) => Content = Messages(c))'
  PROVE  [Fifo!Next]_(Fifo!fifoVars)
<1>1. PICK c \in Rows : Linked(c)
  BY ChainFacts
<1>2. Content = Messages(c)
  BY <1>1, ContentIs
<1>3. ASSUME NEW d \in Rows', Linked(d)'
      PROVE  Content' = Messages(d)'
  BY <1>3
<1>4. /\ Messages(c) \in Seq(Msgs) /\ Len(Messages(c)) = size /\ size \in Nat
      /\ size # 0 => Messages(c) # <<>> /\ Head(Messages(c)) = Messages(c)[1]
  BY MessagesFacts, TypeFacts DEF QInv
<1>5. ASSUME NEW m \in Msgs, Add(m)
      PROVE  Fifo!Put(m)
  <2>1. size < Capacity /\ out' = out
    BY <1>1, <1>5, AddStep DEF Add
  <2>2. PICK d \in Rows' : Linked(d)' /\ Messages(d)' = Append(Messages(c), m)
    BY <1>1, <1>5, AddStep
  <2>3. QED BY <1>2, <1>3, <1>4, <2>1, <2>2 DEF Fifo!Put
<1>6. ASSUME NEW m \in Msgs, AddFull(m)
      PROVE  UNCHANGED vars
  BY <1>6 DEF AddFull
<1>7. CASE UNCHANGED vars
  <2>1. c \in Rows' /\ Linked(c)' /\ Messages(c)' = Messages(c) /\ out' = out
    BY <1>1, <1>7 DEF Rows, Linked, Messages, vars
  <2>2. QED BY <1>2, <1>3, <2>1 DEF Fifo!fifoVars
<1>8. CASE Deq
  <2>1. size # 0 /\ out' = Messages(c)[1]
    BY <1>1, <1>8, DeqStep
  <2>2. PICK d \in Rows' : Linked(d)' /\ Messages(d)' = Tail(Messages(c))
    BY <1>1, <1>8, DeqStep
  <2>3. Fifo!Take
    BY <1>2, <1>3, <1>4, <2>1, <2>2 DEF Fifo!Take
  <2>4. QED BY <2>3 DEF Fifo!Next
<1>9. CASE Undo
  <2>1. size # 0 /\ out' = out
    BY <1>1, <1>9, UndoStep
  <2>2. PICK d \in Rows' : Linked(d)' /\ Messages(d)' = SubSeq(Messages(c), 1, size - 1)
    BY <1>1, <1>9, UndoStep
  <2>3. Fifo!TakeBack
    BY <1>2, <1>3, <1>4, <2>1, <2>2 DEF Fifo!TakeBack
  <2>4. QED BY <2>3 DEF Fifo!Next
<1>10. CASE PeekLast
  <2>1. /\ size # 0 /\ out' = Messages(c)[size]
        /\ c \in Rows' /\ Linked(c)' /\ Messages(c)' = Messages(c)
    BY <1>1, <1>10, PeekLastStep
  <2>2. Fifo!PeekLast
    BY <1>2, <1>3, <1>4, <2>1 DEF Fifo!PeekLast
  <2>3. QED BY <2>2 DEF Fifo!Next
<1>11. CASE Clear
  <2>1. PICK d \in Rows' : Linked(d)' /\ Messages(d)' = <<>>
    BY <1>1, <1>11, ClearStep
  <2>2. out' = out
    BY <1>1, <1>11, ClearStep
  <2>3. Fifo!Empty
    BY <1>3, <2>1, <2>2 DEF Fifo!Empty
  <2>4. QED BY <2>3 DEF Fifo!Next
<1>12. (\E m \in Msgs : Fifo!Put(m)) => Fifo!Next
  BY DEF Fifo!Next
<1>13. QED BY <1>5, <1>6, <1>7, <1>8, <1>9, <1>10, <1>11, <1>12 DEF Next

-----------------------------------------------------------------------------
\* size stays within the capacity, so its unsigned arithmetic never wraps and
\* the equality test of msgqueue_add cannot be jumped over.
THEOREM QueueTypeCorrect ==
  ASSUME "both" \notin Uses
  PROVE  Spec => []TypeOK
<1>1. QInv => TypeOK
  BY DEF QInv
<1>2. QED BY <1>1, QueueInvariance, PTL

\* Where undo is not called the messages in the queue are the ones allocated
\* last, one after the other.
THEOREM QueueInARow ==
  ASSUME "both" \notin Uses
  PROVE  Spec => []Consecutive
<1>1. Init => Consecutive
  BY DEF Init, Consecutive
<1>2. QInv /\ Consecutive /\ [Next]_vars => Consecutive'
  BY ConsecutiveStep
<1>3. QED BY <1>1, <1>2, QueueInvariance, PTL DEF Spec

\* The stale pointers of freed messages are never followed: from first to last
\* there are size messages, linked in both directions, also after undo has left
\* gaps among them, and without gaps where undo is not called.
THEOREM QueueIsChained ==
  ASSUME "both" \notin Uses
  PROVE  Spec => []Chained
<1>1. QInv => LinkedBothWays
  BY DEF QInv
<1>2. LinkedBothWays /\ Consecutive => Chained
  BY DEF Chained
<1>3. QED BY <1>1, <1>2, QueueInvariance, QueueInARow, PTL

\* Both directions of the list agree with its size: msgqueue_deq never finds size
\* above 0 and no first message, on which it would spin.
THEOREM QueueHasShape ==
  ASSUME "both" \notin Uses
  PROVE  Spec => []ListShape
<1>1. QInv => ListShape
  <2>1. SUFFICES ASSUME QInv PROVE ListShape
    OBVIOUS
  <2>2. PICK c \in Rows : Linked(c)
    BY <2>1, ChainFacts
  <2>3. size = Len(Content)
    BY <2>1, <2>2, ContentIs, MessagesFacts
  <2>4. (first = Null) = (last = Null)
    BY <2>1, <2>2, Ends
  <2>5. QED BY <2>1, <2>3, <2>4, BackToFirst DEF ListShape
<1>2. QED BY <1>1, QueueInvariance, PTL

\* The queues that are not both read and undone (the scancodes, the semaphores,
\* the line being typed) implement the bounded FIFO: what fits comes out once, in
\* order, unless undo takes it back, and undo takes the latest.
THEOREM QueueIsFifo ==
  ASSUME "both" \notin Uses
  PROVE  Spec => FifoSpec
<1>1. Init => Fifo!Init
  BY InitStep DEF Init, Fifo!Init
<1>2. QInv => \A c \in Rows : Linked(c) => Content = Messages(c)
  BY ContentIs
<1>3. QInv' => (\A c \in Rows : Linked(c) => Content = Messages(c))'
  BY <1>2, PTL
<1>4. QInv /\ [Next]_vars => [Fifo!Next]_(Fifo!fifoVars)
  BY <1>3, InvStep, NextStep
<1>5. QED BY <1>1, <1>4, QueueInvariance, PTL DEF Spec, FifoSpec, Fifo!Spec

=============================================================================
