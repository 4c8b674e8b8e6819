----------------------------- MODULE BoundedFifo -----------------------------
(***************************************************************************)
(* What a message queue of the kernel promises its users (the scancode     *)
(* queue of the keyboard, the input queue of each console, the queue of    *)
(* each semaphore): messages come out in the order they went in, a message *)
(* that does not fit is dropped, and undo takes back the latest one.       *)
(***************************************************************************)
EXTENDS Naturals, Sequences

CONSTANTS
  Msgs,      \* the messages
  NoMsg,     \* what has been delivered before anything is
  Capacity   \* maxsize

VARIABLES
  content,   \* the messages in the queue, the oldest first
  out        \* the message delivered last

fifoVars == <<content, out>>

Init == content = <<>> /\ out = NoMsg

Put(m) ==
  /\ content' = IF Len(content) < Capacity THEN Append(content, m) ELSE content
  /\ out' = out

Take ==
  /\ content # <<>>
  /\ out' = Head(content)
  /\ content' = Tail(content)

TakeBack ==
  /\ content # <<>>
  /\ content' = SubSeq(content, 1, Len(content) - 1)
  /\ out' = out

PeekLast ==
  /\ content # <<>>
  /\ out' = content[Len(content)]
  /\ content' = content

Empty == content' = <<>> /\ out' = out

Next ==
  \/ \E m \in Msgs : Put(m)
  \/ Take \/ TakeBack \/ PeekLast \/ Empty

Spec == Init /\ [][Next]_fifoVars

\* A queue that is only filled and drained.
Exchange == (\E m \in Msgs : Put(m)) \/ Take

ExchangeSpec == Init /\ [][Exchange]_fifoVars

=============================================================================
