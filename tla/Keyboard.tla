------------------------------- MODULE Keyboard -------------------------------
(***************************************************************************)
(* From the keys to the readers: the keyboard interrupt (Kernel/loader.asm),*)
(* keyboard_task (Kernel/drivers/keyboard.c), the input queue of each       *)
(* console (input.c), the change of console (video.c) and sys_read of stdin *)
(* (Kernel/syscalls.c).  keyboard_task runs with interrupts enabled: every   *)
(* queue operation, and every access to a state that others use, is a step  *)
(* of its own.  sys_read runs with interrupts disabled after its pause, and *)
(* so does msgqueue_deq when it spins on an empty queue: nothing can happen *)
(* any more, the machine is stuck.                                          *)
(*                                                                          *)
(* The queues are sequences.  Backspace undoes messages of an input queue   *)
(* that the shells dequeue from: stale says which of its pointers then lead *)
(* to messages that are no longer in it.  Once first or last does, what the *)
(* queue holds is left open here: MsgQueue.tla has its pointers one by one. *)
(* The handlers are those the kernel installs.  Of what makes a paused shell *)
(* ready, only keyboard_task is here.                                       *)
(***************************************************************************)
EXTENDS Integers, Sequences

CONSTANTS
  Consoles,      \* the consoles; each has a shell that reads from it
  FirstConsole,  \* the console on display after booting
  NoConsole,
  Strokes,       \* the sequences of bytes that the keys send
  Capacity,      \* KEYBOARD_BUFFER_SIZE: 128
  ReadSize,      \* the size the shells pass to sys_read: CMD_BUFFER_SIZE, 512
  MaxStrokes     \* bound: the keys pressed

\* What a byte of the keyboard means to keyboard_task: a character, the Enter
\* key, Backspace, one of the codes that toggle the capitals, a function key (the
\* console it selects), a prefix, or anything else, as the release of a key.
Bytes == {"char", "enter", "back", "shift", "other", "E0", "E1"} \union Consoles

ASSUME KeyboardAssumption ==
  /\ FirstConsole \in Consoles /\ NoConsole \notin Consoles
  /\ Consoles \intersect
       {"char", "enter", "back", "shift", "other", "E0", "E1", "extended"} = {}
  /\ Strokes \subseteq Seq(Bytes)
  /\ Capacity \in Nat \ {0} /\ ReadSize \in Nat \ {0} /\ MaxStrokes \in Nat

VARIABLES
  wire,      \* the bytes of the latest key without their interrupt yet
  kbdqueue,  \* kbdqueue
  pc,        \* where keyboard_task is in its loop
  code,      \* its scancode, then the character c
  reps,      \* its reps
  found,     \* foreground_task in input_add: a shell, or some other task
  caps,      \* keyboard_status.caps
  shown,     \* current_console
  focus,     \* input_focus
  input,     \* input_events
  stale,     \* the pointers of each of them that lead to a message taken or
             \* undone: prev of the first one, next of the last one, or the ends
             \* of the queue themselves, first and last
  reader,    \* what the shell of each console does: busy, paused in sys_read,
             \* or ready to go on with it
  stuck,     \* somebody spins with interrupts disabled
  strokes,   \* the keys pressed so far
  capital,   \* history: what the keys pressed make of the capitals
  spoilt     \* history: what went wrong: a byte or an Enter for which there was
             \* no room, a change of console before a woken shell could read, or
             \* Backspace after Enter: the newline is undone, or the ends are lost

kbd == <<pc, code, reps, found>>
history == <<strokes, capital>>
queues == <<input, stale>>
vars == <<wire, kbdqueue, kbd, caps, shown, focus, queues, reader, stuck, history, spoilt>>

Init ==
  /\ wire = <<>> /\ kbdqueue = <<>>
  /\ pc = "idle" /\ code = "other" /\ reps = 0 /\ found = NoConsole
  /\ caps = FALSE /\ capital = FALSE
  /\ shown = FirstConsole /\ focus = FirstConsole
  /\ input = [c \in Consoles |-> <<>>] /\ stale = [c \in Consoles |-> {}]
  /\ reader = [c \in Consoles |-> "busy"]
  /\ stuck = FALSE /\ strokes = 0 /\ spoilt = {}

-----------------------------------------------------------------------------
(* The keyboard.                                                            *)

\* A key is pressed (or released).
Press(s) ==
  /\ wire = <<>>
  /\ strokes < MaxStrokes
  /\ wire' = s
  /\ strokes' = strokes + 1
  /\ capital' = (capital # (s = <<"shift">>))
  /\ UNCHANGED <<kbdqueue, kbd, caps, shown, focus, queues, reader, stuck, spoilt>>

\* keyboard_irq_handler: the byte is dropped when the queue is full.
Interrupt ==
  /\ wire # <<>>
  /\ wire' = Tail(wire)
  /\ IF Len(kbdqueue) < Capacity
     THEN kbdqueue' = Append(kbdqueue, Head(wire)) /\ UNCHANGED spoilt
     ELSE spoilt' = spoilt \union {"byte"} /\ UNCHANGED kbdqueue
  /\ UNCHANGED <<kbd, caps, shown, focus, queues, reader, stuck, history>>

-----------------------------------------------------------------------------
(* keyboard_task.                                                           *)

\* A byte arrives: the rest of a long code, or all there is to run.
KbdTake ==
  /\ pc = "idle"
  /\ kbdqueue # <<>>
  /\ kbdqueue' = Tail(kbdqueue)
  /\ code' = IF Head(kbdqueue) \in {"E0", "E1"} THEN "extended" ELSE Head(kbdqueue)
  /\ reps' = CASE Head(kbdqueue) = "E0" -> 1
               [] Head(kbdqueue) = "E1" -> 2
               [] OTHER -> 0
  /\ pc' = "run"
  /\ UNCHANGED <<wire, found, caps, shown, focus, queues, reader, stuck, history, spoilt>>

\* The bytes after a prefix are taken without looking whether they are there.
KbdPrefix ==
  /\ pc = "run"
  /\ reps > 0
  /\ IF kbdqueue = <<>>
     THEN stuck' = TRUE /\ UNCHANGED <<kbdqueue, reps>>
     ELSE kbdqueue' = Tail(kbdqueue) /\ reps' = reps - 1 /\ UNCHANGED stuck
  /\ UNCHANGED <<wire, pc, code, found, caps, shown, focus, queues, reader, history, spoilt>>

\* Mutant of Toggle: the release of shift does what pressing it does.
ToggleOn ==
  /\ pc = "run" /\ reps = 0
  /\ code = "shift"
  /\ caps' = TRUE
  /\ pc' = "idle"
  /\ UNCHANGED <<wire, kbdqueue, code, reps, found, shown, focus, queues, reader, stuck,
                 history, spoilt>>

\* keyboard_caps_handler
Toggle ==
  /\ pc = "run" /\ reps = 0
  /\ code = "shift"
  /\ caps' = ~caps
  /\ pc' = "idle"
  /\ UNCHANGED <<wire, kbdqueue, code, reps, found, shown, focus, queues, reader, stuck,
                 history, spoilt>>

\* video_change_console, called by video_fn_handler.
SwitchShown ==
  /\ pc = "run" /\ reps = 0
  /\ code \in Consoles
  /\ shown' = code
  /\ pc' = "switch"
  /\ UNCHANGED <<wire, kbdqueue, code, reps, found, caps, focus, queues, reader, stuck,
                 history, spoilt>>

\* Mutant of SwitchFocus: the input stays where it was.
SwitchFocusNot ==
  /\ pc = "switch"
  /\ pc' = "idle"
  /\ UNCHANGED <<wire, kbdqueue, code, reps, found, caps, shown, focus, queues, reader, stuck,
                 history, spoilt>>

\* input_change_console after it, with interrupts enabled as before; the scancode
\* is not caught, and has no character.
SwitchFocus ==
  /\ pc = "switch"
  /\ focus' = code
  /\ spoilt' = IF code # focus /\ reader[focus] = "ready"
               THEN spoilt \union {"switch"} ELSE spoilt
  /\ pc' = "idle"
  /\ UNCHANGED <<wire, kbdqueue, code, reps, found, caps, shown, queues, reader, stuck, history>>

\* keyboard_backspace_handler looks at the size of the queue; a queue that lost
\* its ends may have any.
BackLook ==
  /\ pc = "run" /\ reps = 0
  /\ code = "back"
  /\ \/ (input[focus] # <<>> \/ "ends" \in stale[focus]) /\ pc' = "undo"
     \/ input[focus] = <<>> /\ pc' = "idle"
  /\ UNCHANGED <<wire, kbdqueue, code, reps, found, caps, shown, focus, queues, reader, stuck,
                 history, spoilt>>

\* input_undo, if a shell has not emptied the queue meanwhile.  The message before
\* becomes the last, and its next still leads to the one undone.  The message
\* before the only one is none, or the one dequeued last: then last leads there,
\* and first to the one undone.
BackUndo ==
  /\ pc = "undo"
  /\ LET q == input[focus]
         lost == Len(q) = 1 /\ "prev" \in stale[focus]
     IN IF q = <<>>
        THEN UNCHANGED <<queues, spoilt>>
        ELSE /\ input' = [input EXCEPT ![focus] = SubSeq(q, 1, Len(q) - 1)]
             /\ stale' = [stale EXCEPT ![focus] = IF lost THEN {"ends"}
                                                  ELSE IF Len(q) = 1 THEN {}
                                                  ELSE @ \union {"next"}]
             /\ spoilt' = IF lost \/ q[Len(q)] = "enter" THEN spoilt \union {"undo"} ELSE spoilt
  /\ pc' = "idle"
  /\ UNCHANGED <<wire, kbdqueue, code, reps, found, caps, shown, focus, reader, stuck, history>>

\* No handler catches the code: it is looked up in the table.  A code with a
\* prefix is far beyond the table's end, and stands for whatever is there.
Lookup ==
  /\ pc = "run" /\ reps = 0
  /\ code \notin Consoles \union {"shift", "back"}
  /\ code' \in IF code = "extended" THEN {"char", "enter", "other"} ELSE {code}
  /\ pc' = IF code' = "other" THEN "idle" ELSE "add"
  /\ UNCHANGED <<wire, kbdqueue, reps, found, caps, shown, focus, queues, reader, stuck,
                 history, spoilt>>

\* Mutant of Add: the capacity is not looked at.
AddAlways ==
  /\ pc = "add"
  /\ input' = [input EXCEPT ![focus] = Append(@, code)]
  /\ stale' = [stale EXCEPT ![focus] = @ \ {"next"}]
  /\ pc' = IF code = "enter" THEN "find" ELSE "idle"
  /\ UNCHANGED <<wire, kbdqueue, code, reps, found, caps, shown, focus, reader, stuck,
                 history, spoilt>>

\* input_add: the character is dropped when the queue of the console is full.
Add ==
  /\ pc = "add"
  /\ IF "ends" \in stale[focus]
     THEN UNCHANGED <<queues, spoilt>>
     ELSE IF Len(input[focus]) < Capacity
     THEN /\ input' = [input EXCEPT ![focus] = Append(@, code)]
          /\ stale' = [stale EXCEPT ![focus] = @ \ {"next"}]
          /\ UNCHANGED spoilt
     ELSE /\ spoilt' = IF code = "enter" THEN spoilt \union {"line"} ELSE spoilt
          /\ UNCHANGED queues
  /\ pc' = IF code = "enter" THEN "find" ELSE "idle"
  /\ UNCHANGED <<wire, kbdqueue, code, reps, found, caps, shown, focus, reader, stuck, history>>

\* Mutant of Find: a newline that was dropped wakes nobody.
FindUnlessFull ==
  /\ pc = "find"
  /\ found' = IF Len(input[focus]) = Capacity THEN NoConsole ELSE shown
  /\ pc' = "ready"
  /\ UNCHANGED <<wire, kbdqueue, code, reps, caps, shown, focus, queues, reader, stuck,
                 history, spoilt>>

\* input_add after a newline: the foreground task of the console on display is
\* its shell, or a command while the shell is busy with it.
Find ==
  /\ pc = "find"
  /\ found' \in IF reader[shown] = "busy" THEN {shown, NoConsole} ELSE {shown}
  /\ pc' = "ready"
  /\ UNCHANGED <<wire, kbdqueue, code, reps, caps, shown, focus, queues, reader, stuck,
                 history, spoilt>>

\* input_add: the task that was found is readied.
Ready ==
  /\ pc = "ready"
  /\ reader' = [c \in Consoles |->
                  IF c = found /\ reader[c] = "paused" THEN "ready" ELSE reader[c]]
  /\ found' = NoConsole
  /\ pc' = "idle"
  /\ UNCHANGED <<wire, kbdqueue, code, reps, caps, shown, focus, queues, stuck, history, spoilt>>

KeyboardTask ==
  \/ KbdTake \/ KbdPrefix
  \/ Toggle \/ SwitchShown \/ SwitchFocus \/ BackLook \/ BackUndo
  \/ Lookup \/ Add \/ Find \/ Ready

-----------------------------------------------------------------------------
(* The readers.                                                             *)

\* sys_read(stdin): the shell pauses, whatever is in the queue.
Pause(c) ==
  /\ reader[c] = "busy"
  /\ reader' = [reader EXCEPT ![c] = "paused"]
  /\ UNCHANGED <<wire, kbdqueue, kbd, caps, shown, focus, queues, stuck, history, spoilt>>

\* The places of q where sys_read stops reading.
Stops(q) == {i \in DOMAIN q : q[i] = "enter" \/ i = ReadSize}

\* msgqueue_deq of the first i messages of the queue that has the input.  When the
\* next of the last one leads to a message undone, first becomes that.
Take(i) ==
  LET lost == i = Len(input[focus]) /\ "next" \in stale[focus] IN
  /\ input' = [input EXCEPT ![focus] = SubSeq(@, i + 1, Len(@))]
  /\ stale' = [stale EXCEPT ![focus] = IF lost THEN {"ends"}
                                       ELSE IF i = Len(input[focus]) THEN {}
                                       ELSE @ \union {"prev"}]
  /\ spoilt' = IF lost THEN spoilt \union {"undo"} ELSE spoilt

\* msgqueue_deq beyond the last message, where messages undone may be found.
TakeUndone ==
  /\ stale[focus] \intersect {"next", "ends"} # {}
  /\ input' = [input EXCEPT ![focus] = <<>>]
  /\ stale' = [stale EXCEPT ![focus] = {"ends"}]
  /\ spoilt' = spoilt \union {"undo"}

\* Mutant of Read: the shell reads up to the latest newline.
ReadAll(c) ==
  /\ reader[c] = "ready"
  /\ \/ /\ Stops(input[focus]) = {}
        /\ stuck' = TRUE
        /\ UNCHANGED <<queues, reader, spoilt>>
     \/ \E i \in Stops(input[focus]) :
          /\ \A j \in Stops(input[focus]) : j <= i
          /\ Take(i)
          /\ reader' = [reader EXCEPT ![c] = "busy"]
          /\ UNCHANGED stuck
  /\ UNCHANGED <<wire, kbdqueue, kbd, caps, shown, focus, history>>

\* sys_read once the shell runs again: it takes characters from the queue that
\* has the input now, up to a newline or the size asked for, and spins when the
\* queue ends before, unless it goes on with messages that were undone.
Read(c) ==
  /\ reader[c] = "ready"
  /\ \/ /\ Stops(input[focus]) = {}
        /\ stuck' = TRUE
        /\ UNCHANGED <<queues, reader, spoilt>>
     \/ /\ \/ Stops(input[focus]) = {} /\ TakeUndone
           \/ \E i \in Stops(input[focus]) :
                /\ \A j \in Stops(input[focus]) : i <= j
                /\ Take(i)
        /\ reader' = [reader EXCEPT ![c] = "busy"]
        /\ UNCHANGED stuck
  /\ UNCHANGED <<wire, kbdqueue, kbd, caps, shown, focus, history>>

Next ==
  /\ ~stuck
  /\ \/ \E s \in Strokes : Press(s)
     \/ Interrupt
     \/ KeyboardTask
     \/ \E c \in Consoles : Pause(c) \/ Read(c)

Spec == Init /\ [][Next]_vars

(* keyboard_task is never paused, and the scheduler runs what is ready.      *)
Fairness == WF_vars(~stuck /\ KeyboardTask)

FairSpec == Spec /\ Fairness

-----------------------------------------------------------------------------
\* Types; the queues keep to their capacity.
TypeOK ==
  /\ wire \in Seq(Bytes) /\ kbdqueue \in Seq(Bytes) /\ Len(kbdqueue) <= Capacity
  /\ pc \in {"idle", "run", "switch", "undo", "add", "find", "ready"}
  /\ code \in (Bytes \ {"E0", "E1"}) \union {"extended"}
  /\ pc = "add" => code \in {"char", "enter"}
  /\ pc = "switch" => code \in Consoles
  /\ reps \in 0 .. 2 /\ found \in Consoles \union {NoConsole}
  /\ caps \in BOOLEAN /\ capital \in BOOLEAN /\ stuck \in BOOLEAN
  /\ shown \in Consoles /\ focus \in Consoles
  /\ input \in [Consoles -> Seq({"char", "enter"})]
  /\ \A c \in Consoles : Len(input[c]) <= Capacity
  /\ stale \in [Consoles -> SUBSET {"prev", "next", "ends"}]
  /\ reader \in [Consoles -> {"busy", "paused", "ready"}]
  /\ strokes \in 0 .. MaxStrokes
  /\ spoilt \subseteq {"byte", "line", "switch", "undo"}

\* "Entrada recibida!": a shell that is woken in sys_read finds a line in the
\* queue it reads from (or as much as it asked for).
ReaderFindsLine ==
  \A c \in Consoles : reader[c] = "ready" => Stops(input[focus]) # {}

\* No woken shell makes the machine hang, as long as no Enter was dropped, no
\* console was left before its shell had read, and Backspace did not undo a newline
\* or lose the ends of a queue: the wake-ups of keyboard_task and the newlines stay
\* in step, and none comes late, for a line that was taken meanwhile.
WokenHasLine == spoilt \subseteq {"byte"} => ReaderFindsLine

\* A shell reads what was typed on its own console, with the same exceptions.
ReadsOwnConsole ==
  [][ \A c \in Consoles :
        (reader[c] = "ready" /\ reader'[c] = "busy" /\ spoilt \subseteq {"byte"})
          => \A d \in Consoles \ {c} : input'[d] = input[d] ]_vars

\* Once every byte has been handled the capitals are what the keys say, unless
\* a byte was lost.
ShiftInStep ==
  (wire = <<>> /\ kbdqueue = <<>> /\ pc = "idle" /\ "byte" \notin spoilt)
    => caps = capital

\* Enter wakes the shell that waits on the console on display, even if the
\* newline is dropped, unless the machine hangs.
EnterWakes ==
  \A c \in Consoles :
    (pc = "idle" /\ kbdqueue # <<>> /\ Head(kbdqueue) = "enter"
       /\ shown = c /\ reader[c] = "paused")
      ~> (reader[c] # "paused" \/ stuck)

=============================================================================
