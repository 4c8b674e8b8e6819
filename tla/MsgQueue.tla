------------------------------- MODULE MsgQueue -------------------------------
(***************************************************************************)
(* The message queue of Kernel/ipc/msgqueue.c, with its doubly linked list *)
(* pointer by pointer.  Every operation disables interrupts from its first *)
(* line to its last and is one action.  malloc only moves forward and free *)
(* does nothing (Kernel/mem.c), so a freed message is never reused and     *)
(* still holds its old pointers: node is the sequence of all the messages  *)
(* ever allocated.                                                         *)
(***************************************************************************)
EXTENDS Integers, Sequences

CONSTANTS
  Msgs,      \* the messages
  NoMsg,     \* what has been delivered before anything is
  Capacity,  \* maxsize
  SizeMod,   \* 2^32: size is a uint32_t
  MaxAdds,   \* bound: the messages ever allocated
  Uses       \* the ways of use considered, see use

ASSUME MsgQueueAssumption ==
  /\ NoMsg \notin Msgs
  /\ Capacity \in Nat \ {0}
  /\ SizeMod \in Nat /\ Capacity < SizeMod
  /\ MaxAdds \in Nat
  /\ Uses \subseteq {"read", "edit", "both"}

VARIABLES
  node,   \* the messages allocated so far
  first,  \* the fields of the queue
  last,
  size,
  out,    \* the message delivered last
  use     \* how the queue is used: read, as the scancodes and the queues of the
          \* semaphores; edited (undone) and not read, as the line being typed;
          \* both, as the input queue of a console

vars == <<node, first, last, size, out, use>>

Null == 0

Init ==
  /\ node = <<>>
  /\ first = Null /\ last = Null
  /\ size = 0
  /\ out = NoMsg
  /\ use \in Uses

-----------------------------------------------------------------------------
\* Mutant of Add: the capacity is not looked at.
AddAlways(m) ==
  LET n == Len(node) + 1 IN
  /\ n <= MaxAdds
  /\ node' = Append(IF first = Null THEN node ELSE [node EXCEPT ![last].next = n],
                    [next |-> Null, prev |-> IF first = Null THEN Null ELSE last,
                     msg |-> m])
  /\ first' = IF first = Null THEN n ELSE first
  /\ last' = n
  /\ size' = (size + 1) % SizeMod
  /\ UNCHANGED <<out, use>>

\* Mutant of Add: the new message does not point back.
AddNoPrev(m) ==
  LET n == Len(node) + 1 IN
  /\ size # Capacity
  /\ n <= MaxAdds
  /\ node' = Append(IF first = Null THEN node ELSE [node EXCEPT ![last].next = n],
                    [next |-> Null, prev |-> Null, msg |-> m])
  /\ first' = IF first = Null THEN n ELSE first
  /\ last' = n
  /\ size' = (size + 1) % SizeMod
  /\ UNCHANGED <<out, use>>

\* Mutant of Add: the message before is not linked to the new one.
AddNoNext(m) ==
  LET n == Len(node) + 1 IN
  /\ size # Capacity
  /\ n <= MaxAdds
  /\ node' = Append(node, [next |-> Null, prev |-> IF first = Null THEN Null ELSE last,
                           msg |-> m])
  /\ first' = IF first = Null THEN n ELSE first
  /\ last' = n
  /\ size' = (size + 1) % SizeMod
  /\ UNCHANGED <<out, use>>

\* msgqueue_add, when there is room.
Add(m) ==
  LET n == Len(node) + 1 IN
  /\ size # Capacity
  /\ n <= MaxAdds
  /\ node' = Append(IF first = Null THEN node ELSE [node EXCEPT ![last].next = n],
                    [next |-> Null, prev |-> IF first = Null THEN Null ELSE last,
                     msg |-> m])
  /\ first' = IF first = Null THEN n ELSE first
  /\ last' = n
  /\ size' = (size + 1) % SizeMod
  /\ UNCHANGED <<out, use>>

\* msgqueue_add, when the queue is full: the message is dropped.
AddFull(m) ==
  /\ size = Capacity
  /\ UNCHANGED vars

\* msgqueue_deq.  On an empty queue it spins with interrupts disabled: its
\* callers look first.
Deq ==
  /\ use # "edit"
  /\ first # Null
  /\ out' = node[first].msg
  /\ first' = node[first].next
  /\ last' = IF first' = Null THEN Null ELSE last
  /\ size' = (size - 1) % SizeMod
  /\ UNCHANGED <<node, use>>

\* Mutant of Undo: the queue that becomes empty keeps its first message.
UndoKeepFirst ==
  /\ use # "read"
  /\ size # 0
  /\ last # Null
  /\ last' = node[last].prev
  /\ size' = (size - 1) % SizeMod
  /\ UNCHANGED <<node, first, out, use>>

\* msgqueue_undo, as the backspace handler calls it: only when size is not 0.
Undo ==
  /\ use # "read"
  /\ size # 0
  /\ last # Null
  /\ last' = node[last].prev
  /\ first' = IF last' = Null THEN Null ELSE first
  /\ size' = (size - 1) % SizeMod
  /\ UNCHANGED <<node, out, use>>

\* msgqueue_peeklast
PeekLast ==
  /\ size # 0
  /\ last # Null
  /\ out' = node[last].msg
  /\ UNCHANGED <<node, first, last, size, use>>

\* msgqueue_clear, which returns at once when there is no first message.
Clear ==
  /\ first' = Null
  /\ last' = IF first = Null THEN last ELSE Null
  /\ size' = IF first = Null THEN size ELSE 0
  /\ UNCHANGED <<node, out, use>>

Next ==
  \/ \E m \in Msgs : Add(m) \/ AddFull(m)
  \/ Deq \/ Undo \/ PeekLast \/ Clear

Spec == Init /\ [][Next]_vars

-----------------------------------------------------------------------------
\* The pointers and counters have their types: size stays within maxsize, so
\* it never wraps around, which the equality test of msgqueue_add relies on.
TypeOK ==
  LET Ptr == {Null} \union DOMAIN node IN
  /\ node \in Seq([next : Ptr, prev : Ptr, msg : Msgs])
  /\ first \in Ptr /\ last \in Ptr
  /\ size \in 0 .. Capacity
  /\ out \in Msgs \union {NoMsg}
  /\ use \in Uses

\* The messages from first to last.
Content ==
  LET From[n \in DOMAIN node] ==
        IF n = last \/ node[n].next = Null THEN <<node[n].msg>>
        ELSE <<node[n].msg>> \o From[node[n].next]
  IN IF first = Null THEN <<>> ELSE From[first]

\* The message k places before last.
Back == [k \in 0 .. size |-> LET B[i \in 0 .. size] ==
                                   IF i = 0 THEN last
                                   ELSE IF B[i - 1] = Null THEN Null
                                   ELSE node[B[i - 1]].prev
                             IN B[k]]

\* The two directions of the list and the counter agree, whatever stale
\* pointers the freed messages still hold: as many messages as size says lie
\* between first and last, and prev leads from last back to first.
ListShape ==
  /\ (first = Null) = (last = Null)
  /\ size = Len(Content)
  /\ first # Null => Back[size - 1] = first

\* Where nobody calls undo, the queue is a row of messages allocated one after
\* the other, linked both ways and counted, and it ends with the latest one.
Consecutive ==
  use = "read" =>
  /\ first = Null => last = Null /\ size = 0
  /\ first # Null =>
       /\ first \in 1 .. Len(node) /\ last = Len(node)
       /\ size = last - first + 1
       /\ \A n \in first .. last - 1 : node[n].next = n + 1 /\ node[n + 1].prev = n
       /\ node[last].next = Null

\* c[1], c[2] ... are the messages in the queue from first to last, in the order
\* they were allocated, linked both ways.
Linked(c) ==
  /\ size = 0 => first = Null /\ last = Null
  /\ size # 0 => first = c[1] /\ last = c[size]
  /\ \A i, j \in 1 .. size : i < j => c[i] < c[j]
  /\ \A i \in 1 .. size - 1 : node[c[i]].next = c[i + 1] /\ node[c[i + 1]].prev = c[i]

\* A queue that is not both read and undone: from first to last there are size
\* messages, linked both ways, whatever undo has skipped; what is read leaves at
\* the last message to nowhere, what is edited leaves at the first; and no
\* pointer of any message, freed ones included, leads back.
LinkedBothWays ==
  use # "both" =>
  /\ \E c \in [1 .. size -> DOMAIN node] : Linked(c)
  /\ first # Null /\ use = "read" => node[last].next = Null
  /\ first # Null /\ use = "edit" => node[first].prev = Null
  /\ \A n \in DOMAIN node : node[n].next \in {Null} \union (n + 1 .. Len(node))

\* The list as pointers: linked both ways, whatever freed messages still point
\* to, and without gaps where nobody calls undo.
Chained == LinkedBothWays /\ Consecutive

\* The queue delivers its messages in order, once each, and undo takes back
\* the latest one.
Fifo == INSTANCE BoundedFifo WITH content <- Content
FifoSpec == Fifo!Spec

=============================================================================
