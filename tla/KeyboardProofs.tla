---------------------------- MODULE KeyboardProofs ----------------------------
(* A shell that Enter wakes finds a line to read, for any consoles, keys and  *)
(* capacity, as long as no Enter is dropped, no console is left too early and *)
(* Backspace undoes no newline, and capitals are what the keys say, as long as *)
(* no byte is lost.                                                           *)
EXTENDS Keyboard, SequenceTheorems, TLAPS

\* The newlines of q.
Enters(q) == {i \in DOMAIN q : q[i] = "enter"}

Fine == spoilt \subseteq {"byte"}

\* keyboard_task has put a newline in the queue and not yet readied anybody.
Waking == pc \in {"find", "ready"}

\* There is a newline for every wake-up: for the shell that has been woken, and
\* another for the one that keyboard_task is about to wake.  The queues have
\* their ends, and the input follows the console on display.
LineKept ==
  /\ IF pc = "switch" THEN code = shown ELSE shown = focus
  /\ found # NoConsole => pc = "ready"
  /\ Fine =>
       /\ \A c \in Consoles : "ends" \notin stale[c]
       /\ \A c \in Consoles : reader[c] = "ready" => c = focus
       /\ found \in {NoConsole, focus}
       /\ reader[focus] = "ready" \/ Waking => Enters(input[focus]) # {}
       /\ reader[focus] = "ready" /\ Waking =>
            \E i, j \in Enters(input[focus]) : i < j

KInv == TypeOK /\ LineKept

\* Appending keeps the places of the newlines, and adds one for a newline.
LEMMA EntersAppend ==
  ASSUME NEW q \in Seq({"char", "enter"}), NEW x \in {"char", "enter"}
  PROVE  /\ Append(q, x) \in Seq({"char", "enter"}) /\ Len(Append(q, x)) = Len(q) + 1
         /\ Enters(q) \subseteq Enters(Append(q, x))
         /\ x = "enter" => Len(q) + 1 \in Enters(Append(q, x))
         /\ \A i \in Enters(q) : i \in Nat /\ i < Len(q) + 1
<1>1. Append(q, x) \in Seq({"char", "enter"}) /\ Len(Append(q, x)) = Len(q) + 1
  OBVIOUS
<1>2. \A i \in 1 .. Len(q) : Append(q, x)[i] = q[i]
  OBVIOUS
<1>3. Append(q, x)[Len(q) + 1] = x
  OBVIOUS
<1>4. DOMAIN q = 1 .. Len(q) /\ DOMAIN Append(q, x) = 1 .. Len(q) + 1 /\ Len(q) \in Nat
  OBVIOUS
<1>5. QED BY <1>1, <1>2, <1>3, <1>4 DEF Enters

\* What sys_read leaves when it stops at place i.
LEMMA Rest ==
  ASSUME NEW q \in Seq({"char", "enter"}), NEW i \in DOMAIN q
  PROVE  /\ SubSeq(q, i + 1, Len(q)) \in Seq({"char", "enter"})
         /\ Len(SubSeq(q, i + 1, Len(q))) = Len(q) - i
         /\ Len(SubSeq(q, i + 1, Len(q))) <= Len(q)
         /\ \A k \in 1 .. Len(q) - i : SubSeq(q, i + 1, Len(q))[k] = q[i + k]
<1>1. i \in 1 .. Len(q) /\ Len(q) \in Nat /\ i + 1 \in 1 .. Len(q) + 1
  OBVIOUS
<1>2. /\ SubSeq(q, i + 1, Len(q)) \in Seq({"char", "enter"})
      /\ Len(SubSeq(q, i + 1, Len(q))) = IF i + 1 <= Len(q) THEN Len(q) - (i + 1) + 1 ELSE 0
      /\ \A k \in 1 .. Len(q) - (i + 1) + 1 : SubSeq(q, i + 1, Len(q))[k] = q[i + 1 + k - 1]
  BY <1>1, SubSeqProperties
<1>3. Len(SubSeq(q, i + 1, Len(q))) = Len(q) - i
  BY <1>1, <1>2
<1>4. ASSUME NEW k \in 1 .. Len(q) - i
      PROVE  SubSeq(q, i + 1, Len(q))[k] = q[i + k]
  <2>1. k \in 1 .. Len(q) - (i + 1) + 1 /\ i + 1 + k - 1 = i + k
    BY <1>1
  <2>2. QED BY <1>2, <2>1
<1>5. QED BY <1>1, <1>2, <1>3, <1>4

\* A shell that reads takes one newline at most: of two, the later one stays.
LEMMA OneLineTaken ==
  ASSUME NEW q \in Seq({"char", "enter"}),
         NEW i \in Stops(q), \A j \in Stops(q) : i <= j,
         NEW a \in Enters(q), NEW b \in Enters(q), a < b
  PROVE  Enters(SubSeq(q, i + 1, Len(q))) # {}
<1>1. a \in 1 .. Len(q) /\ b \in 1 .. Len(q) /\ i \in 1 .. Len(q) /\ Len(q) \in Nat /\ q[b] = "enter"
  BY DEF Enters, Stops
<1>2. a \in Stops(q)
  BY DEF Enters, Stops
<1>3. i < b
  BY <1>1, <1>2
<1>4. b - i \in 1 .. Len(q) - i /\ i + (b - i) = b
  BY <1>1, <1>3
<1>5. i \in DOMAIN q
  BY DEF Stops
<1>6. /\ SubSeq(q, i + 1, Len(q))[b - i] = "enter"
      /\ DOMAIN SubSeq(q, i + 1, Len(q)) = 1 .. Len(q) - i
  <2> DEFINE r == SubSeq(q, i + 1, Len(q))
  <2>1. /\ r \in Seq({"char", "enter"}) /\ Len(r) = Len(q) - i
        /\ \A k \in 1 .. Len(q) - i : r[k] = q[i + k]
    BY <1>5, Rest
  <2> HIDE DEF r
  <2>2. r[b - i] = "enter" /\ DOMAIN r = 1 .. Len(q) - i
    BY <2>1, <1>1, <1>4
  <2>3. QED BY <2>2 DEF r
<1>7. b - i \in Enters(SubSeq(q, i + 1, Len(q)))
  BY <1>4, <1>6 DEF Enters
<1>8. QED BY <1>7

\* The machine starts with nobody woken.
LEMMA InitKept ==
  ASSUME Init
  PROVE  KInv
<1>1. TypeOK
  <2>1. <<>> \in Seq(Bytes) /\ <<>> \in Seq({"char", "enter"}) /\ Len(<<>>) = 0
    OBVIOUS
  <2>2. /\ wire \in Seq(Bytes) /\ kbdqueue \in Seq(Bytes) /\ Len(kbdqueue) <= Capacity
        /\ pc = "idle" /\ code \in (Bytes \ {"E0", "E1"}) \union {"extended"}
        /\ reps \in 0 .. 2
    BY <2>1, KeyboardAssumption DEF Init, Bytes
  <2>3. /\ input \in [Consoles -> Seq({"char", "enter"})]
        /\ \A c \in Consoles : Len(input[c]) <= Capacity
    <3>1. /\ input = [c \in Consoles |-> <<>>] /\ Capacity \in Nat
          /\ <<>> \in Seq({"char", "enter"}) /\ Len(<<>>) <= Capacity
      BY <2>1, KeyboardAssumption DEF Init
    <3>2. \A c \in Consoles : input[c] = <<>>
      BY <3>1, Zenon
    <3>3. input \in [Consoles -> Seq({"char", "enter"})]
      BY <3>1, Zenon
    <3>4. QED BY <3>1, <3>2, <3>3, Zenon
  <2>4. /\ found \in Consoles \union {NoConsole}
        /\ caps \in BOOLEAN /\ capital \in BOOLEAN /\ stuck \in BOOLEAN
        /\ shown \in Consoles /\ focus \in Consoles
        /\ stale \in [Consoles -> SUBSET {"prev", "next", "ends"}]
        /\ reader \in [Consoles -> {"busy", "paused", "ready"}]
        /\ strokes \in 0 .. MaxStrokes /\ spoilt \subseteq {"byte", "line", "switch", "undo"}
    <3>1. /\ reader \in [Consoles -> {"busy", "paused", "ready"}]
          /\ stale \in [Consoles -> SUBSET {"prev", "next", "ends"}]
      BY DEF Init
    <3>2. strokes \in 0 .. MaxStrokes
      BY KeyboardAssumption DEF Init
    <3>3. QED BY <3>1, <3>2, KeyboardAssumption, Zenon DEF Init
  <2>5. QED BY <2>2, <2>3, <2>4 DEF TypeOK
<1>2. LineKept
  <2>1. \A c \in Consoles : stale[c] = {}
    BY DEF Init
  <2>2. QED BY <2>1, KeyboardAssumption DEF Init, LineKept, Fine, Waking
<1>3. QED BY <1>1, <1>2 DEF KInv

\* Pressing a key and its interrupts touch no input queue and no shell.
LEMMA HardwareStep ==
  ASSUME KInv, (\E s \in Strokes : Press(s)) \/ Interrupt
  PROVE  KInv'
<1>1. CASE \E s \in Strokes : Press(s)
  <2>1. PICK s \in Strokes : Press(s)
    BY <1>1
  <2>2. TypeOK'
    <3>1. s \in Seq(Bytes) /\ capital' \in BOOLEAN
      BY <2>1, KeyboardAssumption DEF Press
    <3>2. strokes' \in 0 .. MaxStrokes
      BY <2>1, KeyboardAssumption DEF KInv, TypeOK, Press, queues
    <3>3. QED BY <2>1, <3>1, <3>2 DEF KInv, TypeOK, Press, kbd, queues
  <2>3. LineKept'
    BY <2>1 DEF KInv, LineKept, Fine, Waking, Press, kbd, queues
  <2>4. QED BY <2>2, <2>3 DEF KInv
<1>2. CASE Interrupt
  <2>1. wire \in Seq(Bytes) /\ wire # <<>> /\ kbdqueue \in Seq(Bytes) /\ Len(kbdqueue) <= Capacity
    BY <1>2 DEF KInv, TypeOK, Interrupt, queues
  <2>2. Head(wire) \in Bytes /\ Tail(wire) \in Seq(Bytes)
    BY <2>1
  <2>3. wire' \in Seq(Bytes) /\ kbdqueue' \in Seq(Bytes) /\ Len(kbdqueue') <= Capacity
    <3>1. CASE Len(kbdqueue) < Capacity
      <4>1. kbdqueue' = Append(kbdqueue, Head(wire)) /\ wire' = Tail(wire)
        BY <1>2, <3>1 DEF Interrupt
      <4>2. QED BY <4>1, <3>1, <2>1, <2>2, KeyboardAssumption
    <3>2. CASE ~(Len(kbdqueue) < Capacity)
      BY <1>2, <3>2, <2>1, <2>2 DEF Interrupt
    <3>3. QED BY <3>1, <3>2
  <2>4. spoilt' = spoilt \/ spoilt' = spoilt \union {"byte"}
    BY <1>2 DEF Interrupt
  <2>5. TypeOK'
    BY <1>2, <2>3, <2>4 DEF KInv, TypeOK, Interrupt, kbd, history, queues
  <2>6. LineKept'
    BY <1>2, <2>4 DEF KInv, LineKept, Fine, Waking, Interrupt, kbd, queues
  <2>7. QED BY <2>5, <2>6 DEF KInv
<1>3. QED BY <1>1, <1>2

\* Taking and handling a code that puts nothing in an input queue.
LEMMA CodeStep ==
  ASSUME KInv, KbdTake \/ KbdPrefix \/ Toggle \/ Lookup
  PROVE  KInv'
<1>1. CASE KbdTake
  <2>1. kbdqueue \in Seq(Bytes) /\ kbdqueue # <<>> /\ Len(kbdqueue) <= Capacity
    BY <1>1 DEF KInv, TypeOK, KbdTake, queues
  <2>2. /\ Head(kbdqueue) \in Bytes /\ Tail(kbdqueue) \in Seq(Bytes)
        /\ Len(Tail(kbdqueue)) <= Capacity
    BY <2>1, KeyboardAssumption
  <2>3. code' \in (Bytes \ {"E0", "E1"}) \union {"extended"} /\ reps' \in 0 .. 2
    BY <1>1, <2>2 DEF KbdTake
  <2>4. TypeOK'
    BY <1>1, <2>2, <2>3 DEF KInv, TypeOK, KbdTake, history, queues
  <2>5. LineKept'
    BY <1>1 DEF KInv, LineKept, Fine, Waking, KbdTake, queues
  <2>6. QED BY <2>4, <2>5 DEF KInv
<1>2. CASE KbdPrefix
  <2>1. kbdqueue \in Seq(Bytes) /\ Len(kbdqueue) <= Capacity /\ reps \in 0 .. 2 /\ reps > 0
    BY <1>2 DEF KInv, TypeOK, KbdPrefix, queues
  <2>2. kbdqueue' \in Seq(Bytes) /\ Len(kbdqueue') <= Capacity /\ reps' \in 0 .. 2 /\ stuck' \in BOOLEAN
    <3>1. CASE kbdqueue = <<>>
      BY <1>2, <2>1, <3>1 DEF KbdPrefix, KInv, TypeOK, queues
    <3>2. CASE kbdqueue # <<>>
      <4>1. kbdqueue' = Tail(kbdqueue) /\ reps' = reps - 1 /\ stuck' = stuck
        BY <1>2, <3>2 DEF KbdPrefix
      <4>2. Tail(kbdqueue) \in Seq(Bytes) /\ Len(Tail(kbdqueue)) <= Capacity
        BY <2>1, <3>2, KeyboardAssumption
      <4>3. QED BY <4>1, <4>2, <2>1 DEF KInv, TypeOK
    <3>3. QED BY <3>1, <3>2
  <2>3. TypeOK'
    BY <1>2, <2>2 DEF KInv, TypeOK, KbdPrefix, history, queues
  <2>4. LineKept'
    BY <1>2 DEF KInv, LineKept, Fine, Waking, KbdPrefix, queues
  <2>5. QED BY <2>3, <2>4 DEF KInv
<1>3. CASE Toggle
  <2>1. TypeOK'
    BY <1>3 DEF KInv, TypeOK, Toggle, history, queues
  <2>2. LineKept'
    BY <1>3 DEF KInv, LineKept, Fine, Waking, Toggle, queues
  <2>3. QED BY <2>1, <2>2 DEF KInv
<1>4. CASE Lookup
  <2>1. code' \in {"char", "enter", "other"}
    BY <1>4 DEF KInv, TypeOK, Lookup, Bytes, queues
  <2>2. /\ pc' \in {"idle", "add"} /\ (pc' = "add" => code' \in {"char", "enter"})
        /\ code' \in (Bytes \ {"E0", "E1"}) \union {"extended"}
    BY <1>4, <2>1 DEF Lookup, Bytes
  <2>3. TypeOK'
    BY <1>4, <2>1, <2>2 DEF KInv, TypeOK, Lookup, history, queues
  <2>4. LineKept'
    BY <1>4, <2>2 DEF KInv, LineKept, Fine, Waking, Lookup, queues
  <2>5. QED BY <2>3, <2>4 DEF KInv
<1>5. QED BY <1>1, <1>2, <1>3, <1>4

\* A change of console spoils the claim if a woken shell is left behind; else
\* nobody is woken.
LEMMA SwitchStep ==
  ASSUME KInv, SwitchShown \/ SwitchFocus
  PROVE  KInv'
<1>1. CASE SwitchShown
  <2>1. code \in Consoles /\ shown' = code /\ pc' = "switch" /\ pc = "run" /\ code' = code
    BY <1>1 DEF SwitchShown
  <2>2. TypeOK'
    BY <1>1, <2>1 DEF KInv, TypeOK, SwitchShown, history, queues
  <2>3. LineKept'
    BY <1>1, <2>1 DEF KInv, LineKept, Fine, Waking, SwitchShown, queues
  <2>4. QED BY <2>2, <2>3 DEF KInv
<1>2. CASE SwitchFocus
  <2>1. /\ code \in Consoles /\ focus' = code /\ pc = "switch" /\ pc' = "idle"
        /\ shown' = shown /\ shown = code /\ focus \in Consoles
    BY <1>2 DEF SwitchFocus, KInv, TypeOK, LineKept
  <2>2. spoilt' \in {spoilt, spoilt \union {"switch"}}
    BY <1>2 DEF SwitchFocus
  <2>3. TypeOK'
    BY <1>2, <2>1, <2>2 DEF KInv, TypeOK, SwitchFocus, history, queues
  <2>4. LineKept'
    <3>1. found = NoConsole /\ found' = NoConsole /\ ~Waking'
          /\ reader' = reader /\ input' = input /\ stale' = stale
      BY <1>2, <2>1 DEF KInv, LineKept, Waking, SwitchFocus, queues
    <3>2. ASSUME Fine'
          PROVE  Fine /\ (code = focus \/ reader[focus] # "ready")
      BY <1>2, <3>2 DEF Fine, SwitchFocus
    <3>3. ASSUME Fine', NEW c \in Consoles, reader[c] = "ready"
          PROVE  c = focus /\ c = code /\ Enters(input[focus]) # {}
      BY <3>1, <3>2, <3>3 DEF KInv, LineKept
    <3>4. ASSUME Fine'
          PROVE  /\ \A c \in Consoles : "ends" \notin stale'[c]
                 /\ \A c \in Consoles : reader'[c] = "ready" => c = focus'
                 /\ reader'[focus'] = "ready" => Enters(input'[focus']) # {}
      <4>1. \A c \in Consoles : "ends" \notin stale'[c]
        BY <3>1, <3>2, <3>4 DEF KInv, LineKept
      <4>2. QED BY <2>1, <3>1, <3>3, <3>4, <4>1
    <3>5. QED BY <2>1, <3>1, <3>4 DEF LineKept
  <2>5. QED BY <2>3, <2>4 DEF KInv
<1>3. QED BY <1>1, <1>2

\* What backspace leaves of a queue has all its newlines but the last message.
LEMMA AllButLast ==
  ASSUME NEW q \in Seq({"char", "enter"}), q # <<>>
  PROVE  /\ SubSeq(q, 1, Len(q) - 1) \in Seq({"char", "enter"})
         /\ Len(SubSeq(q, 1, Len(q) - 1)) = Len(q) - 1
         /\ Len(q) \in Nat \ {0}
         /\ q[Len(q)] # "enter" => Enters(q) \subseteq Enters(SubSeq(q, 1, Len(q) - 1))
<1> DEFINE r == SubSeq(q, 1, Len(q) - 1)
<1>1. Len(q) \in Nat \ {0} /\ DOMAIN q = 1 .. Len(q)
  OBVIOUS
<1>2. \A k \in 1 .. Len(q) - 1 : q[k] \in {"char", "enter"}
  BY <1>1
<1>3. /\ r \in Seq({"char", "enter"})
      /\ Len(r) = IF 1 <= Len(q) - 1 THEN Len(q) - 1 - 1 + 1 ELSE 0
      /\ \A k \in 1 .. Len(q) - 1 - 1 + 1 : r[k] = q[1 + k - 1]
  BY <1>1, <1>2, SubSeqProperties
<1> HIDE DEF r
<1> DEFINE n == Len(q)
<1>8. n \in Nat \ {0} /\ n = Len(q)
  BY <1>1
<1> HIDE DEF n
<1>4. Len(r) = Len(q) - 1 /\ DOMAIN r = 1 .. Len(q) - 1
  <2>1. n - 1 = IF 1 <= n - 1 THEN n - 1 - 1 + 1 ELSE 0
    BY <1>8
  <2>2. Len(r) = n - 1
    BY <1>3, <1>8, <2>1
  <2>3. QED BY <1>3, <1>8, <2>2
<1>5. ASSUME NEW k \in 1 .. Len(q) - 1
      PROVE  r[k] = q[k]
  <2>1. k \in 1 .. Len(q) - 1 - 1 + 1 /\ 1 + k - 1 = k
    BY <1>1
  <2>2. QED BY <1>3, <2>1
<1>6. ASSUME q[Len(q)] # "enter", NEW i \in Enters(q)
      PROVE  i \in Enters(r)
  <2>1. i \in 1 .. Len(q) /\ q[i] = "enter" /\ i # Len(q)
    BY <1>1, <1>6 DEF Enters
  <2>2. i \in 1 .. Len(q) - 1
    BY <1>8, <2>1
  <2>3. QED BY <1>4, <1>5, <2>1, <2>2 DEF Enters
<1>7. QED BY <1>1, <1>3, <1>4, <1>6 DEF r

\* Backspace takes no newline and no end of a queue, or it spoils the claim.
LEMMA BackStep ==
  ASSUME KInv, BackLook \/ BackUndo
  PROVE  KInv'
<1>1. CASE BackLook
  <2>1. TypeOK'
    BY <1>1 DEF KInv, TypeOK, BackLook, history, queues
  <2>2. LineKept'
    BY <1>1 DEF KInv, LineKept, Fine, Waking, BackLook, queues
  <2>3. QED BY <2>1, <2>2 DEF KInv
<1>2. CASE BackUndo /\ input[focus] = <<>>
  <2>1. input' = input /\ stale' = stale /\ spoilt' = spoilt /\ pc = "undo" /\ pc' = "idle"
    BY <1>2 DEF BackUndo, queues
  <2>2. TypeOK'
    BY <1>2, <2>1 DEF KInv, TypeOK, BackUndo, history
  <2>3. LineKept'
    BY <1>2, <2>1 DEF KInv, LineKept, Fine, Waking, BackUndo
  <2>4. QED BY <2>2, <2>3 DEF KInv
<1>3. CASE BackUndo /\ input[focus] # <<>>
  <2> DEFINE q == input[focus]
             r == SubSeq(q, 1, Len(q) - 1)
             lost == Len(q) = 1 /\ "prev" \in stale[focus]
             marks == IF lost THEN {"ends"}
                      ELSE IF Len(q) = 1 THEN {} ELSE stale[focus] \union {"next"}
  <2>1. /\ input' = [input EXCEPT ![focus] = r]
        /\ stale' = [stale EXCEPT ![focus] = marks]
        /\ spoilt' = IF lost \/ q[Len(q)] = "enter" THEN spoilt \union {"undo"} ELSE spoilt
        /\ pc = "undo" /\ pc' = "idle"
        /\ UNCHANGED <<code, found, shown, focus, reader>>
    BY <1>3 DEF BackUndo
  <2>2. /\ focus \in Consoles /\ q \in Seq({"char", "enter"}) /\ q # <<>> /\ Len(q) <= Capacity
        /\ input \in [Consoles -> Seq({"char", "enter"})]
        /\ stale \in [Consoles -> SUBSET {"prev", "next", "ends"}]
        /\ \A c \in Consoles : Len(input[c]) <= Capacity
    BY <1>3 DEF KInv, TypeOK
  <2>3. /\ r \in Seq({"char", "enter"}) /\ Len(r) <= Capacity
        /\ q[Len(q)] # "enter" => Enters(q) \subseteq Enters(r)
    <3> HIDE DEF q
    <3>1. /\ r \in Seq({"char", "enter"}) /\ Len(r) = Len(q) - 1 /\ Len(q) \in Nat \ {0}
          /\ q[Len(q)] # "enter" => Enters(q) \subseteq Enters(r)
      BY <2>2, AllButLast
    <3> HIDE DEF r
    <3>2. QED BY <3>1, <2>2, KeyboardAssumption
  <2>4. /\ marks \in SUBSET {"prev", "next", "ends"}
        /\ ~lost /\ "ends" \notin stale[focus] => "ends" \notin marks
    BY <2>2
  <2> HIDE DEF q, r, lost, marks
  <2>5. /\ input' \in [Consoles -> Seq({"char", "enter"})]
        /\ \A c \in Consoles : input'[c] = IF c = focus THEN r ELSE input[c]
    BY <2>1, <2>2, <2>3
  <2>6. /\ stale' \in [Consoles -> SUBSET {"prev", "next", "ends"}]
        /\ \A c \in Consoles : stale'[c] = IF c = focus THEN marks ELSE stale[c]
    BY <2>1, <2>2, <2>4
  <2>7. \A c \in Consoles : Len(input'[c]) <= Capacity
    BY <2>2, <2>3, <2>5
  <2>8. TypeOK'
    BY <1>3, <2>1, <2>5, <2>6, <2>7 DEF KInv, TypeOK, BackUndo, history
  <2>9. LineKept'
    <3>1. ASSUME Fine'
          PROVE  /\ \A c \in Consoles : "ends" \notin stale'[c]
                 /\ \A c \in Consoles : reader'[c] = "ready" => c = focus'
                 /\ found' \in {NoConsole, focus'}
                 /\ reader'[focus'] = "ready" => Enters(input'[focus']) # {}
      <4>1. Fine /\ ~lost /\ q[Len(q)] # "enter"
        BY <2>1, <3>1 DEF Fine
      <4>2. /\ \A c \in Consoles : "ends" \notin stale[c]
            /\ \A c \in Consoles : reader[c] = "ready" => c = focus
            /\ found \in {NoConsole, focus}
            /\ reader[focus] = "ready" => Enters(q) # {}
        BY <4>1 DEF KInv, LineKept, q
      <4>3. \A c \in Consoles : "ends" \notin stale'[c]
        BY <4>1, <4>2, <2>2, <2>4, <2>6
      <4>4. Enters(q) \subseteq Enters(input'[focus])
        BY <4>1, <2>2, <2>3, <2>5
      <4>5. QED BY <4>2, <4>3, <4>4, <2>1
    <3>2. shown' = focus' /\ found' = NoConsole /\ ~Waking'
      BY <2>1 DEF KInv, LineKept, Waking
    <3>3. QED BY <2>1, <3>1, <3>2 DEF LineKept
  <2>10. QED BY <2>8, <2>9 DEF KInv
<1>4. QED BY <1>1, <1>2, <1>3

\* A newline in the queue is one more than the woken shell needs.
LEMMA AddStep ==
  ASSUME KInv, Add
  PROVE  KInv'
<1>1. /\ pc = "add" /\ code \in {"char", "enter"} /\ code' = code
      /\ pc' = IF code = "enter" THEN "find" ELSE "idle"
      /\ found = NoConsole /\ found' = found
      /\ shown' = shown /\ focus' = focus /\ reader' = reader /\ focus \in Consoles
      /\ shown = focus
  BY DEF Add, KInv, TypeOK, LineKept, queues
<1> DEFINE q == input[focus]
<1>2. q \in Seq({"char", "enter"}) /\ Len(q) <= Capacity
      /\ input \in [Consoles -> Seq({"char", "enter"})]
      /\ \A c \in Consoles : Len(input[c]) <= Capacity
  BY <1>1 DEF KInv, TypeOK
<1>3. CASE "ends" \notin stale[focus] /\ Len(q) < Capacity
  <2>1. /\ input' = [input EXCEPT ![focus] = Append(q, code)] /\ spoilt' = spoilt
        /\ stale' = [stale EXCEPT ![focus] = @ \ {"next"}]
    BY <1>3 DEF Add
  <2>9. /\ stale' \in [Consoles -> SUBSET {"prev", "next", "ends"}]
        /\ \A c \in Consoles : "ends" \notin stale[c] => "ends" \notin stale'[c]
    BY <1>1, <2>1 DEF KInv, TypeOK
  <2>2. /\ Append(q, code) \in Seq({"char", "enter"}) /\ Len(Append(q, code)) <= Capacity
        /\ Enters(q) \subseteq Enters(Append(q, code))
        /\ code = "enter" => Len(q) + 1 \in Enters(Append(q, code))
        /\ \A i \in Enters(q) : i \in Nat /\ i < Len(q) + 1
    <3> HIDE DEF q
    <3>1. QED BY <1>1, <1>2, <1>3, EntersAppend, KeyboardAssumption
  <2>3. /\ input' \in [Consoles -> Seq({"char", "enter"})]
        /\ \A c \in Consoles : Len(input'[c]) <= Capacity
        /\ input'[focus] = Append(q, code)
    <3> HIDE DEF q
    <3>1. \A c \in Consoles : input'[c] = IF c = focus THEN Append(q, code) ELSE input[c]
      BY <1>2, <2>1
    <3>2. input' \in [Consoles -> Seq({"char", "enter"})]
      BY <1>2, <2>1, <2>2
    <3>3. QED BY <1>1, <1>2, <2>2, <3>1, <3>2
  <2>4. TypeOK'
    BY <1>1, <2>1, <2>3, <2>9 DEF KInv, TypeOK, Add, history
  <2>5. LineKept'
    <3>1. ASSUME Fine'
          PROVE  /\ \A c \in Consoles : "ends" \notin stale'[c]
                 /\ \A c \in Consoles : reader'[c] = "ready" => c = focus'
                 /\ reader'[focus'] = "ready" \/ Waking' => Enters(input'[focus']) # {}
                 /\ reader'[focus'] = "ready" /\ Waking' =>
                      \E i, j \in Enters(input'[focus']) : i < j
      <4>1. Fine
        BY <2>1, <3>1 DEF Fine
      <4>2. /\ \A c \in Consoles : reader[c] = "ready" => c = focus
            /\ reader[focus] = "ready" => Enters(q) # {}
        BY <4>1 DEF KInv, LineKept
      <4>8. \A c \in Consoles : "ends" \notin stale'[c]
        BY <4>1, <2>9 DEF KInv, LineKept
      <4>3. Waking' => code = "enter"
        BY <1>1 DEF Waking
      <4> HIDE DEF q
      <4>4. Waking' => Enters(input'[focus]) # {}
        BY <4>3, <2>2, <2>3
      <4>5. reader[focus] = "ready" => Enters(input'[focus]) # {}
        BY <4>2, <2>2, <2>3
      <4>6. ASSUME reader[focus] = "ready", Waking'
            PROVE  \E i, j \in Enters(input'[focus]) : i < j
        <5>1. PICK i \in Enters(q) : TRUE
          BY <4>2, <4>6
        <5>2. i \in Enters(input'[focus]) /\ Len(q) + 1 \in Enters(input'[focus])
              /\ i < Len(q) + 1
          BY <4>3, <4>6, <5>1, <2>2, <2>3
        <5>3. QED BY <5>2
      <4>7. QED BY <1>1, <4>2, <4>4, <4>5, <4>6, <4>8
    <3>2. QED BY <1>1, <3>1 DEF LineKept
  <2>6. QED BY <2>4, <2>5 DEF KInv
<1>4. CASE "ends" \notin stale[focus] /\ ~(Len(q) < Capacity)
  <2>1. input' = input /\ stale' = stale
        /\ spoilt' = IF code = "enter" THEN spoilt \union {"line"} ELSE spoilt
    BY <1>4 DEF Add, queues
  <2>2. TypeOK'
    BY <1>1, <2>1 DEF KInv, TypeOK, Add, history, queues
  <2>3. LineKept'
    <3>1. ASSUME Fine'
          PROVE  Fine /\ ~Waking'
      BY <1>1, <2>1, <3>1 DEF Fine, Waking
    <3>2. QED BY <1>1, <2>1, <3>1 DEF KInv, LineKept
  <2>4. QED BY <2>2, <2>3 DEF KInv
<1>5. CASE "ends" \in stale[focus]
  <2>1. input' = input /\ stale' = stale /\ spoilt' = spoilt
    BY <1>5 DEF Add, queues
  <2>2. TypeOK'
    BY <1>1, <2>1 DEF KInv, TypeOK, Add, history
  <2>3. ~Fine'
    BY <1>1, <1>5, <2>1 DEF KInv, LineKept, Fine
  <2>4. LineKept'
    BY <1>1, <2>3 DEF LineKept
  <2>5. QED BY <2>2, <2>4 DEF KInv
<1>6. QED BY <1>3, <1>4, <1>5

\* Finding the foreground task changes nothing, and readying it wakes at most
\* the shell of the console on display, for which there is a newline.
LEMMA WakeStep ==
  ASSUME KInv, Find \/ Ready
  PROVE  KInv'
<1>1. CASE Find
  <2>1. TypeOK'
    BY <1>1 DEF KInv, TypeOK, Find, history, queues
  <2>2. LineKept'
    BY <1>1 DEF KInv, LineKept, Fine, Waking, Find, queues
  <2>3. QED BY <2>1, <2>2 DEF KInv
<1>2. CASE Ready
  <2>1. /\ reader' = [c \in Consoles |-> IF c = found /\ reader[c] = "paused"
                                        THEN "ready" ELSE reader[c]]
        /\ pc = "ready" /\ pc' = "idle" /\ found' = NoConsole /\ queues' = queues
        /\ input' = input /\ stale' = stale
        /\ focus' = focus /\ shown' = shown /\ spoilt' = spoilt /\ focus \in Consoles
    BY <1>2 DEF KInv, TypeOK, Ready, queues
  <2>2. TypeOK'
    BY <1>2, <2>1 DEF KInv, TypeOK, Ready, history, queues
  <2>3. LineKept'
    <3>1. shown' = focus' /\ ~Waking'
      BY <2>1 DEF KInv, LineKept, Waking
    <3>2. ASSUME Fine'
          PROVE  /\ \A c \in Consoles : "ends" \notin stale'[c]
                 /\ \A c \in Consoles : reader'[c] = "ready" => c = focus'
                 /\ Enters(input'[focus']) # {}
      <4>1. Fine /\ Waking
        BY <2>1, <3>2 DEF Fine, Waking
      <4>2. found \in {NoConsole, focus} /\ NoConsole \notin Consoles
            /\ \A c \in Consoles : reader[c] = "ready" => c = focus
        BY <4>1, KeyboardAssumption DEF KInv, LineKept
      <4>3. QED BY <2>1, <4>1, <4>2 DEF KInv, LineKept
    <3>3. QED BY <2>1, <3>1, <3>2 DEF LineKept
  <2>4. QED BY <2>2, <2>3 DEF KInv
<1>3. QED BY <1>1, <1>2

\* A shell that pauses is not woken by it; a shell that reads takes one line.
LEMMA ReaderStep ==
  ASSUME KInv, NEW c \in Consoles, Pause(c) \/ Read(c)
  PROVE  KInv'
<1>1. CASE Pause(c)
  <2>1. TypeOK'
    BY <1>1 DEF KInv, TypeOK, Pause, kbd, history, queues
  <2>2. LineKept'
    <3>1. \A d \in Consoles : reader'[d] = "ready" <=> reader[d] = "ready"
      BY <1>1 DEF KInv, TypeOK, Pause, queues
    <3>2. focus \in Consoles
      BY DEF KInv, TypeOK
    <3>3. QED BY <1>1, <3>1, <3>2 DEF KInv, LineKept, Fine, Waking, Pause, kbd, queues
  <2>3. QED BY <2>1, <2>2 DEF KInv
<1>2. CASE Read(c) /\ stuck' = TRUE /\ UNCHANGED <<queues, reader, spoilt>>
  <2>1. stuck' = TRUE /\ input' = input /\ stale' = stale /\ reader' = reader
    BY <1>2 DEF queues
  <2>2. TypeOK'
    BY <1>2, <2>1 DEF KInv, TypeOK, Read, kbd, history, queues
  <2>3. LineKept'
    BY <1>2, <2>1 DEF KInv, LineKept, Fine, Waking, Read, kbd, queues
  <2>4. QED BY <2>2, <2>3 DEF KInv
<1>3. CASE /\ Read(c) /\ stuck' = stuck /\ reader' = [reader EXCEPT ![c] = "busy"]
           /\ \E i \in Stops(input[focus]) : (\A j \in Stops(input[focus]) : i <= j) /\ Take(i)
  <2> DEFINE q == input[focus]
  <2>1. PICK i \in Stops(q) : (\A j \in Stops(q) : i <= j) /\ Take(i)
    BY <1>3
  <2> DEFINE lost == i = Len(q) /\ "next" \in stale[focus]
             marks == IF lost THEN {"ends"}
                      ELSE IF i = Len(q) THEN {} ELSE stale[focus] \union {"prev"}
  <2>9. /\ input' = [input EXCEPT ![focus] = SubSeq(q, i + 1, Len(q))]
        /\ stale' = [stale EXCEPT ![focus] = marks]
        /\ spoilt' = IF lost THEN spoilt \union {"undo"} ELSE spoilt
    BY <2>1 DEF Take
  <2>10. /\ reader' = [reader EXCEPT ![c] = "busy"] /\ stuck' = stuck
    BY <1>3
  <2>2. q \in Seq({"char", "enter"}) /\ Len(q) <= Capacity /\ focus \in Consoles
        /\ input \in [Consoles -> Seq({"char", "enter"})]
        /\ \A d \in Consoles : Len(input[d]) <= Capacity
    BY DEF KInv, TypeOK
  <2>3. i \in DOMAIN q /\ Len(q) \in Nat
    BY <2>2 DEF Stops
  <2>4. /\ SubSeq(q, i + 1, Len(q)) \in Seq({"char", "enter"})
        /\ Len(SubSeq(q, i + 1, Len(q))) <= Len(q)
        /\ Len(SubSeq(q, i + 1, Len(q))) \in Nat
    <3> HIDE DEF q
    <3>1. QED BY <2>2, <2>3, Rest
  <2>5. /\ input' \in [Consoles -> Seq({"char", "enter"})]
        /\ \A d \in Consoles : Len(input'[d]) <= Capacity
        /\ input'[focus] = SubSeq(q, i + 1, Len(q))
    <3> DEFINE rest == SubSeq(q, i + 1, Len(q))
    <3>1. /\ input' = [input EXCEPT ![focus] = rest]
          /\ rest \in Seq({"char", "enter"}) /\ Len(rest) <= Len(q) /\ Len(rest) \in Nat
      BY <2>9, <2>4
    <3> HIDE DEF rest, q
    <3>2. Len(rest) <= Capacity
      BY <3>1, <2>2, <2>3, KeyboardAssumption
    <3>3. \A d \in Consoles : input'[d] = IF d = focus THEN rest ELSE input[d]
      BY <3>1, <2>2
    <3>4. input' \in [Consoles -> Seq({"char", "enter"})]
      BY <3>1, <2>2
    <3>5. QED BY <3>2, <3>3, <3>4, <2>2 DEF rest
  <2>11. /\ stale' \in [Consoles -> SUBSET {"prev", "next", "ends"}]
         /\ ~lost => \A d \in Consoles : "ends" \notin stale[d] => "ends" \notin stale'[d]
    <3>1. /\ stale \in [Consoles -> SUBSET {"prev", "next", "ends"}] /\ focus \in Consoles
          /\ marks \in SUBSET {"prev", "next", "ends"}
          /\ ~lost /\ "ends" \notin stale[focus] => "ends" \notin marks
      BY DEF KInv, TypeOK
    <3> HIDE DEF marks, lost, q
    <3>2. QED BY <2>9, <3>1
  <2> HIDE DEF lost, marks
  <2>6. TypeOK'
    BY <1>3, <2>9, <2>10, <2>5, <2>11 DEF KInv, TypeOK, Read, kbd, history
  <2>7. LineKept'
    <3>1. /\ pc' = pc /\ found' = found /\ shown' = shown /\ focus' = focus
          /\ code' = code /\ reader[c] = "ready"
      BY <1>3 DEF Read, kbd
    <3>2. \A d \in Consoles : reader'[d] = IF d = c THEN "busy" ELSE reader[d]
      BY <2>10 DEF KInv, TypeOK
    <3>3. ASSUME Fine'
          PROVE  /\ \A d \in Consoles : "ends" \notin stale'[d]
                 /\ \A d \in Consoles : reader'[d] # "ready"
                 /\ found' \in {NoConsole, focus'}
                 /\ Waking' => Enters(input'[focus]) # {}
      <4>5. Fine /\ ~lost
        BY <2>9, <3>3 DEF Fine
      <4>1. Fine /\ c = focus
        BY <3>1, <4>5 DEF KInv, LineKept
      <4>6. \A d \in Consoles : "ends" \notin stale'[d]
        BY <2>11, <4>5 DEF KInv, LineKept
      <4>2. \A d \in Consoles : reader'[d] # "ready"
        BY <3>2, <4>1 DEF KInv, LineKept
      <4>3. ASSUME Waking'
            PROVE  Enters(input'[focus]) # {}
        <5>1. Waking
          BY <3>1, <4>3 DEF Waking
        <5>2. PICK a \in Enters(q), b \in Enters(q) : a < b
          BY <5>1, <4>1, <3>1 DEF KInv, LineKept
        <5>3. Enters(SubSeq(q, i + 1, Len(q))) # {}
          <6> HIDE DEF q
          <6>1. QED BY <5>2, <2>1, <2>2, OneLineTaken
        <5>4. QED BY <5>3, <2>5
      <4>4. QED BY <4>1, <4>2, <4>3, <4>6, <3>1 DEF KInv, LineKept
    <3>4. (IF pc' = "switch" THEN code' = shown' ELSE shown' = focus') /\ (found' # NoConsole => pc' = "ready")
      BY <3>1 DEF KInv, LineKept
    <3>5. QED BY <3>1, <3>3, <3>4, <2>2 DEF LineKept
  <2>8. QED BY <2>6, <2>7 DEF KInv
<1>4. CASE Read(c) /\ TakeUndone /\ reader' = [reader EXCEPT ![c] = "busy"] /\ stuck' = stuck
  <2>1. /\ input' = [input EXCEPT ![focus] = <<>>]
        /\ stale' = [stale EXCEPT ![focus] = {"ends"}]
        /\ spoilt' = spoilt \union {"undo"}
        /\ UNCHANGED <<pc, code, found, shown, focus>>
    BY <1>4 DEF TakeUndone, Read, kbd
  <2>2. <<>> \in Seq({"char", "enter"}) /\ Len(<<>>) = 0
    OBVIOUS
  <2>3. /\ input \in [Consoles -> Seq({"char", "enter"})]
        /\ \A d \in Consoles : Len(input[d]) <= Capacity
        /\ stale \in [Consoles -> SUBSET {"prev", "next", "ends"}]
        /\ reader \in [Consoles -> {"busy", "paused", "ready"}]
    BY DEF KInv, TypeOK
  <2>4. \A d \in Consoles : input'[d] = IF d = focus THEN <<>> ELSE input[d]
    BY <2>1, <2>3
  <2>5. /\ input' \in [Consoles -> Seq({"char", "enter"})]
        /\ \A d \in Consoles : Len(input'[d]) <= Capacity
        /\ stale' \in [Consoles -> SUBSET {"prev", "next", "ends"}]
        /\ reader' \in [Consoles -> {"busy", "paused", "ready"}]
    <3>1. input' \in [Consoles -> Seq({"char", "enter"})]
      BY <2>1, <2>2, <2>3
    <3>2. \A d \in Consoles : Len(input'[d]) <= Capacity
      BY <2>2, <2>3, <2>4, KeyboardAssumption
    <3>3. stale' \in [Consoles -> SUBSET {"prev", "next", "ends"}]
      BY <2>1, <2>3
    <3>4. reader' \in [Consoles -> {"busy", "paused", "ready"}]
      BY <1>4, <2>3
    <3>5. QED BY <3>1, <3>2, <3>3, <3>4
  <2>6. TypeOK'
    BY <1>4, <2>1, <2>5 DEF KInv, TypeOK, Read, kbd, history
  <2>7. ~Fine'
    BY <2>1 DEF Fine
  <2>8. LineKept'
    BY <2>1, <2>7 DEF KInv, LineKept
  <2>9. QED BY <2>6, <2>8 DEF KInv
<1>5. QED BY <1>1, <1>2, <1>3, <1>4 DEF Read

\* Every step keeps a newline for every wake-up.
LEMMA NextKept ==
  ASSUME KInv, [Next]_vars
  PROVE  KInv'
<1>1. CASE UNCHANGED vars
  BY <1>1 DEF KInv, TypeOK, LineKept, Fine, Waking, vars, kbd, history, queues
<1>2. CASE (\E s \in Strokes : Press(s)) \/ Interrupt
  BY <1>2, HardwareStep
<1>3. CASE KeyboardTask
  BY <1>3, CodeStep, SwitchStep, BackStep, AddStep, WakeStep DEF KeyboardTask
<1>4. CASE \E c \in Consoles : Pause(c) \/ Read(c)
  BY <1>4, ReaderStep
<1>5. QED BY <1>1, <1>2, <1>3, <1>4 DEF Next

LEMMA KeyboardInvariance == Spec => []KInv
<1>1. Init => KInv
  BY InitKept
<1>2. KInv /\ [Next]_vars => KInv'
  BY NextKept
<1>3. QED BY <1>1, <1>2, PTL DEF Spec

\* Type correctness: the queues never exceed their capacity, and the console on
\* display and the one that has the input are consoles.
THEOREM KeyboardTypeCorrect == Spec => []TypeOK
<1>1. KInv => TypeOK
  BY DEF KInv
<1>2. QED BY <1>1, KeyboardInvariance, PTL

\* Where no Enter is dropped, no console is left before its shell has read, and
\* Backspace neither undoes a newline nor loses the ends of a queue, a shell that
\* keyboard_task wakes finds a line: input_add readies it after the newline is in
\* the queue, and no shell takes the newline of another wake-up.
THEOREM WokenShellHasLine == Spec => []WokenHasLine
<1>1. KInv => WokenHasLine
  <2>1. SUFFICES ASSUME KInv, Fine, NEW c \in Consoles, reader[c] = "ready"
                 PROVE  Stops(input[focus]) # {}
    BY DEF WokenHasLine, ReaderFindsLine, Fine
  <2>2. Enters(input[focus]) # {}
    BY <2>1 DEF KInv, LineKept
  <2>3. QED BY <2>2 DEF Enters, Stops
<1>2. QED BY <1>1, KeyboardInvariance, PTL

\* A shell that reads takes from the queue of its own console: the console that has
\* the input did not change since it was woken.
THEOREM ShellReadsOwn == Spec => ReadsOwnConsole
<1>1. ASSUME KInv, [Next]_vars, NEW c \in Consoles, reader[c] = "ready",
             reader'[c] = "busy", Fine, NEW d \in Consoles \ {c}
      PROVE  input'[d] = input[d]
  <2>1. reader \in [Consoles -> {"busy", "paused", "ready"}] /\ c = focus
        /\ DOMAIN input = Consoles
    BY <1>1 DEF KInv, TypeOK, LineKept
  <2>2. PICK e \in Consoles : Read(e)
    <3>1. reader' # reader
      BY <1>1
    <3>2. ~ Ready
      BY <1>1, <2>1 DEF Ready
    <3>3. \A e \in Consoles : ~ Pause(e)
      BY <1>1, <2>1 DEF Pause
    <3>4. QED
      BY <1>1, <3>1, <3>2, <3>3
      DEF Next, vars, Press, Interrupt, KeyboardTask, KbdTake, KbdPrefix, Toggle,
          SwitchShown, SwitchFocus, BackLook, BackUndo, Lookup, Add, Find
  <2>3. input' = input \/ \E q : input' = [input EXCEPT ![focus] = q]
    BY <2>2 DEF Read, Take, TakeUndone, queues
  <2>4. QED BY <2>1, <2>3
<1>2. KInv /\ [Next]_vars =>
        [\A c \in Consoles :
           (reader[c] = "ready" /\ reader'[c] = "busy" /\ spoilt \subseteq {"byte"})
             => \A d \in Consoles \ {c} : input'[d] = input[d]]_vars
  BY <1>1 DEF Fine
<1>3. QED BY <1>2, KeyboardInvariance, PTL DEF Spec, ReadsOwnConsole

-----------------------------------------------------------------------------
(* The capitals.  Between the keys and caps lie the bytes without their       *)
(* interrupt, the queue, and the code that keyboard_task is at.  What they    *)
(* will make of caps is what the keys have made of capital.                   *)

\* A key sends one byte, or two after E0, or three after E1.
WholeStrokes ==
  \A s \in Strokes :
    \/ \E x \in Bytes \ {"E0", "E1"} : s = <<x>>
    \/ \E x \in Bytes : s = <<"E0", x>>
    \/ \E x, y \in Bytes : s = <<"E1", x, y>>

\* What byte x makes of the capitals, and of the bytes still to be skipped.
NextCaps(c, r, x) == IF r = 0 /\ x = "shift" THEN ~c ELSE c
NextReps(r, x) ==
  IF r > 0 THEN r - 1 ELSE IF x = "E0" THEN 1 ELSE IF x = "E1" THEN 2 ELSE 0

\* Byte k of the queue q followed by the bytes w.
ByteAt(q, w, k) == IF k <= Len(q) THEN q[k] ELSE w[k - Len(q)]

\* From capitals c, with r bytes to skip, the bytes of q and w lead to capitals z
\* and to the end of a key.
LeadsTo(c, r, q, w, z) ==
  \E v \in [0 .. Len(q) + Len(w) -> BOOLEAN], n \in [0 .. Len(q) + Len(w) -> 0 .. 2] :
    /\ v[0] = c /\ n[0] = r
    /\ \A k \in 1 .. Len(q) + Len(w) :
         /\ v[k] = NextCaps(v[k - 1], n[k - 1], ByteAt(q, w, k))
         /\ n[k] = NextReps(n[k - 1], ByteAt(q, w, k))
    /\ v[Len(q) + Len(w)] = z /\ n[Len(q) + Len(w)] = 0

LEMMA NothingLeads ==
  ASSUME NEW c \in BOOLEAN
  PROVE  LeadsTo(c, 0, <<>>, <<>>, c)
<1> DEFINE v == [k \in 0 .. 0 |-> c]
           n == [k \in 0 .. 0 |-> 0]
<1>1. Len(<<>>) + Len(<<>>) = 0
  OBVIOUS
<1>2. v \in [0 .. 0 -> BOOLEAN] /\ n \in [0 .. 0 -> 0 .. 2] /\ v[0] = c /\ n[0] = 0
  OBVIOUS
<1>3. QED
  <2> HIDE DEF v, n
  <2>1. QED BY <1>1, <1>2 DEF LeadsTo

\* The interrupt moves a byte from the keyboard to the queue.
LEMMA MovedLeads ==
  ASSUME NEW c, NEW r, NEW z, NEW q \in Seq(Bytes), NEW w \in Seq(Bytes), w # <<>>,
         LeadsTo(c, r, q, w, z)
  PROVE  LeadsTo(c, r, Append(q, Head(w)), Tail(w), z)
<1> DEFINE a == Append(q, Head(w))
           b == Tail(w)
<1>1. /\ Len(q) \in Nat /\ Len(w) \in Nat /\ Len(w) >= 1
      /\ Len(a) = Len(q) + 1 /\ a[Len(q) + 1] = w[1] /\ \A k \in 1 .. Len(q) : a[k] = q[k]
      /\ Len(b) = Len(w) - 1 /\ \A k \in 1 .. Len(w) - 1 : b[k] = w[k + 1]
  <2>1. Len(q) \in Nat /\ Len(w) \in Nat /\ Len(w) >= 1 /\ Head(w) = w[1] /\ Head(w) \in Bytes
    BY EmptySeq
  <2>2. Len(a) = Len(q) + 1 /\ a[Len(q) + 1] = w[1] /\ \A k \in 1 .. Len(q) : a[k] = q[k]
    BY <2>1, AppendProperties
  <2>3. Len(b) = Len(w) - 1 /\ \A k \in 1 .. Len(w) - 1 : b[k] = w[k + 1]
    BY HeadTailProperties
  <2>4. QED BY <2>1, <2>2, <2>3
<1> HIDE DEF a, b
<1>2. Len(a) + Len(b) = Len(q) + Len(w)
  BY <1>1
<1>3. ASSUME NEW k \in 1 .. Len(q) + Len(w)
      PROVE  ByteAt(a, b, k) = ByteAt(q, w, k)
  <2>1. CASE k <= Len(q)
    BY <1>1, <2>1 DEF ByteAt
  <2>2. CASE k = Len(q) + 1
    <3>1. k - Len(q) = 1 /\ ~ (k <= Len(q)) /\ k <= Len(a)
      BY <1>1, <2>2
    <3>2. QED BY <1>1, <2>2, <3>1 DEF ByteAt
  <2>3. CASE k > Len(q) + 1
    <3>1. /\ k - Len(a) \in 1 .. Len(w) - 1 /\ k - Len(a) + 1 = k - Len(q)
          /\ ~ (k <= Len(q)) /\ ~ (k <= Len(a))
      BY <1>1, <2>3
    <3>2. QED BY <1>1, <3>1 DEF ByteAt
  <2>4. QED BY <1>1, <2>1, <2>2, <2>3
<1> DEFINE m == Len(q) + Len(w)
<1>4. PICK v \in [0 .. m -> BOOLEAN], n \in [0 .. m -> 0 .. 2] :
        /\ v[0] = c /\ n[0] = r
        /\ \A k \in 1 .. m : /\ v[k] = NextCaps(v[k - 1], n[k - 1], ByteAt(q, w, k))
                             /\ n[k] = NextReps(n[k - 1], ByteAt(q, w, k))
        /\ v[m] = z /\ n[m] = 0
  BY DEF LeadsTo
<1>5. \A k \in 1 .. m : /\ v[k] = NextCaps(v[k - 1], n[k - 1], ByteAt(a, b, k))
                        /\ n[k] = NextReps(n[k - 1], ByteAt(a, b, k))
  BY <1>3, <1>4
<1>6. m = Len(a) + Len(b)
  BY <1>2
<1>7. LeadsTo(c, r, a, b, z)
  <2> HIDE DEF m
  <2>1. QED BY <1>4, <1>5, <1>6 DEF LeadsTo
<1>8. QED BY <1>7 DEF a, b

\* keyboard_task takes a byte from the queue.
LEMMA TakenLeads ==
  ASSUME NEW c, NEW r, NEW z, NEW q \in Seq(Bytes), NEW w \in Seq(Bytes), q # <<>>,
         LeadsTo(c, r, q, w, z)
  PROVE  LeadsTo(NextCaps(c, r, Head(q)), NextReps(r, Head(q)), Tail(q), w, z)
<1> DEFINE b == Tail(q)
           m == Len(q) + Len(w)
<1>1. /\ Len(q) \in Nat /\ Len(w) \in Nat /\ Len(q) >= 1 /\ Head(q) = q[1]
      /\ Len(b) = Len(q) - 1 /\ \A k \in 1 .. Len(q) - 1 : b[k] = q[k + 1]
  <2>1. Len(b) = Len(q) - 1 /\ \A k \in 1 .. Len(q) - 1 : b[k] = q[k + 1]
    BY HeadTailProperties
  <2>2. Len(q) \in Nat /\ Len(w) \in Nat /\ Len(q) >= 1 /\ Head(q) = q[1]
    BY EmptySeq
  <2>3. QED BY <2>1, <2>2
<1> HIDE DEF b
<1>2. m \in Nat /\ m >= 1 /\ Len(b) + Len(w) = m - 1
  BY <1>1
<1>3. PICK v \in [0 .. m -> BOOLEAN], n \in [0 .. m -> 0 .. 2] :
        /\ v[0] = c /\ n[0] = r
        /\ \A k \in 1 .. m : /\ v[k] = NextCaps(v[k - 1], n[k - 1], ByteAt(q, w, k))
                             /\ n[k] = NextReps(n[k - 1], ByteAt(q, w, k))
        /\ v[m] = z /\ n[m] = 0
  BY DEF LeadsTo
<1>4. ASSUME NEW k \in 1 .. m - 1
      PROVE  ByteAt(b, w, k) = ByteAt(q, w, k + 1)
  <2>1. CASE k <= Len(q) - 1
    <3>1. k \in 1 .. Len(q) - 1 /\ k + 1 <= Len(q) /\ k <= Len(b)
      BY <1>1, <1>2, <2>1
    <3>2. QED BY <1>1, <3>1 DEF ByteAt
  <2>2. CASE k > Len(q) - 1
    <3>1. ~ (k + 1 <= Len(q)) /\ ~ (k <= Len(b)) /\ k - Len(b) = k + 1 - Len(q)
      BY <1>1, <1>2, <2>2
    <3>2. QED BY <1>1, <3>1 DEF ByteAt
  <2>3. QED BY <1>1, <1>2, <2>1, <2>2
<1>5. ByteAt(q, w, 1) = Head(q)
  BY <1>1 DEF ByteAt
<1> HIDE DEF m
<1> DEFINE v1 == [k \in 0 .. m - 1 |-> v[k + 1]]
           n1 == [k \in 0 .. m - 1 |-> n[k + 1]]
<1>6. /\ v1 \in [0 .. m - 1 -> BOOLEAN] /\ n1 \in [0 .. m - 1 -> 0 .. 2]
      /\ \A k \in 0 .. m - 1 : v1[k] = v[k + 1] /\ n1[k] = n[k + 1]
  BY <1>2, <1>3
<1>7. v1[0] = NextCaps(c, r, Head(q)) /\ n1[0] = NextReps(r, Head(q))
  <2>1. /\ v[1] = NextCaps(v[1 - 1], n[1 - 1], ByteAt(q, w, 1))
        /\ n[1] = NextReps(n[1 - 1], ByteAt(q, w, 1))
    BY <1>2, <1>3
  <2>2. 0 \in 0 .. m - 1 /\ 1 - 1 = 0 /\ 0 + 1 = 1
    BY <1>2
  <2>3. QED
    <3> HIDE DEF v1, n1
    <3>1. QED BY <1>3, <1>5, <1>6, <2>1, <2>2
<1>8. ASSUME NEW k \in 1 .. m - 1
      PROVE  /\ v1[k] = NextCaps(v1[k - 1], n1[k - 1], ByteAt(b, w, k))
             /\ n1[k] = NextReps(n1[k - 1], ByteAt(b, w, k))
  <2>1. /\ k \in 0 .. m - 1 /\ k - 1 \in 0 .. m - 1 /\ k + 1 \in 1 .. m
        /\ k - 1 + 1 = k /\ k + 1 - 1 = k
    BY <1>2
  <2>2. /\ v[k + 1] = NextCaps(v[k], n[k], ByteAt(q, w, k + 1))
        /\ n[k + 1] = NextReps(n[k], ByteAt(q, w, k + 1))
    BY <1>3, <2>1
  <2>3. QED
    <3> HIDE DEF v1, n1
    <3>1. QED BY <1>4, <1>6, <2>1, <2>2
<1>9. v1[m - 1] = z /\ n1[m - 1] = 0
  <2>1. m - 1 \in 0 .. m - 1 /\ m - 1 + 1 = m
    BY <1>2
  <2>2. QED
    <3> HIDE DEF v1, n1
    <3>1. QED BY <1>3, <1>6, <2>1
<1>10. LeadsTo(NextCaps(c, r, Head(q)), NextReps(r, Head(q)), b, w, z)
  <2> HIDE DEF v1, n1
  <2>1. QED BY <1>2, <1>6, <1>7, <1>8, <1>9 DEF LeadsTo
<1>11. QED BY <1>10 DEF b

\* A key makes of capital what its bytes will make of caps.
LEMMA PressedLeads ==
  ASSUME NEW c, NEW r, NEW z \in BOOLEAN, NEW q \in Seq(Bytes), LeadsTo(c, r, q, <<>>, z),
         WholeStrokes, NEW s \in Strokes
  PROVE  LeadsTo(c, r, q, s, z # (s = <<"shift">>))
<1> DEFINE l == Len(q) + Len(<<>>)
           m == Len(q) + Len(s)
<1>1. l \in Nat /\ l = Len(q) /\ s \in Seq(Bytes) /\ Len(s) \in Nat
  BY KeyboardAssumption
<1>2. PICK v \in [0 .. l -> BOOLEAN], n \in [0 .. l -> 0 .. 2] :
        /\ v[0] = c /\ n[0] = r
        /\ \A k \in 1 .. l : /\ v[k] = NextCaps(v[k - 1], n[k - 1], ByteAt(q, <<>>, k))
                             /\ n[k] = NextReps(n[k - 1], ByteAt(q, <<>>, k))
        /\ v[l] = z /\ n[l] = 0
  BY DEF LeadsTo
<1> DEFINE y == z # (s = <<"shift">>)
           \* The bytes still to be skipped after the first k bytes of s.
           skip(k) == IF k = Len(s) THEN 0 ELSE IF s[1] = "E0" THEN 1 ELSE 3 - k
<1>3. /\ Len(s) \in 1 .. 3
      /\ \A k \in 1 .. Len(s) : skip(k) \in 0 .. 2
      /\ skip(1) = NextReps(0, s[1]) /\ y = NextCaps(z, 0, s[1])
      /\ \A k \in 2 .. Len(s) : skip(k) = NextReps(skip(k - 1), s[k]) /\ skip(k - 1) > 0
      /\ skip(Len(s)) = 0
  <2>1. CASE \E x \in Bytes \ {"E0", "E1"} : s = <<x>>
    <3>1. PICK x \in Bytes \ {"E0", "E1"} : s = <<x>>
      BY <2>1
    <3>2. Len(s) = 1 /\ s[1] = x /\ (s = <<"shift">>) = (x = "shift")
      BY <3>1
    <3>3. skip(1) = 0 /\ NextReps(0, x) = 0 /\ 1 .. Len(s) = {1} /\ 2 .. Len(s) = {}
      BY <3>1, <3>2 DEF NextReps
    <3>4. y = NextCaps(z, 0, x)
      BY <3>2 DEF NextCaps
    <3>5. QED
      <4> HIDE DEF skip, y
      <4>1. QED BY <3>2, <3>3, <3>4
  <2>2. CASE \E x \in Bytes : s = <<"E0", x>>
    <3>1. PICK x \in Bytes : s = <<"E0", x>>
      BY <2>2
    <3>2. Len(s) = 2 /\ s[1] = "E0" /\ s[2] = x /\ s # <<"shift">>
      BY <3>1
    <3>3. /\ skip(1) = 1 /\ skip(2) = 0 /\ 1 .. Len(s) = {1, 2} /\ 2 .. Len(s) = {2}
          /\ NextReps(0, "E0") = 1 /\ NextReps(1, x) = 0
      BY <3>2 DEF NextReps
    <3>4. y = NextCaps(z, 0, "E0")
      BY <3>2 DEF NextCaps
    <3>5. QED
      <4> HIDE DEF skip, y
      <4>1. QED BY <3>2, <3>3, <3>4
  <2>3. CASE \E x, u \in Bytes : s = <<"E1", x, u>>
    <3>1. PICK x \in Bytes, u \in Bytes : s = <<"E1", x, u>>
      BY <2>3
    <3>2. Len(s) = 3 /\ s[1] = "E1" /\ s[2] = x /\ s[3] = u /\ s # <<"shift">>
      BY <3>1
    <3>3. /\ skip(1) = 2 /\ skip(2) = 1 /\ skip(3) = 0
          /\ 1 .. Len(s) = {1, 2, 3} /\ 2 .. Len(s) = {2, 3}
          /\ NextReps(0, "E1") = 2 /\ NextReps(2, x) = 1 /\ NextReps(1, u) = 0
      BY <3>2 DEF NextReps
    <3>4. y = NextCaps(z, 0, "E1")
      BY <3>2 DEF NextCaps
    <3>5. QED
      <4> HIDE DEF skip, y
      <4>1. QED BY <3>2, <3>3, <3>4
  <2>4. QED BY <2>1, <2>2, <2>3 DEF WholeStrokes
<1>4. y \in BOOLEAN
  OBVIOUS
<1> HIDE DEF skip, y, l
<1> DEFINE w == [k \in 0 .. m |-> IF k <= l THEN v[k] ELSE y]
           p == [k \in 0 .. m |-> IF k <= l THEN n[k] ELSE skip(k - l)]
<1>5. m \in Nat /\ m = l + Len(s) /\ m > l /\ ~ (m <= l) /\ m - l = Len(s)
  BY <1>1, <1>3
<1> HIDE DEF m
<1>6. \A k \in 0 .. m : k > l => k - l \in 1 .. Len(s)
  BY <1>1, <1>5
<1>7. w \in [0 .. m -> BOOLEAN]
  BY <1>1, <1>2, <1>4
<1>8. p \in [0 .. m -> 0 .. 2]
  <2>1. ASSUME NEW k \in 0 .. m
        PROVE  (IF k <= l THEN n[k] ELSE skip(k - l)) \in 0 .. 2
    <3>1. CASE k <= l
      <4>1. k \in 0 .. l
        BY <1>1, <1>5, <3>1
      <4>2. n[k] \in 0 .. 2
        BY <1>2, <4>1
      <4>3. QED BY <3>1, <4>2
    <3>2. CASE ~ (k <= l)
      <4>1. k - l \in 1 .. Len(s)
        BY <1>1, <1>5, <1>6, <3>2
      <4>2. skip(k - l) \in 0 .. 2
        BY <1>3, <4>1
      <4>3. QED BY <3>2, <4>2
    <3>3. QED BY <3>1, <3>2
  <2>2. QED BY <2>1
<1>9. /\ \A k \in 0 .. l : w[k] = v[k] /\ p[k] = n[k]
      /\ \A k \in 0 .. m : k > l => w[k] = y /\ p[k] = skip(k - l)
  BY <1>1, <1>5
<1> HIDE DEF w, p
<1>10. ASSUME NEW k \in 1 .. m
       PROVE  /\ w[k] = NextCaps(w[k - 1], p[k - 1], ByteAt(q, s, k))
              /\ p[k] = NextReps(p[k - 1], ByteAt(q, s, k))
  <2>1. CASE k <= l
    <3>1. k \in 1 .. l /\ k - 1 \in 0 .. l /\ k \in 0 .. l
      BY <1>1, <2>1
    <3>2. ByteAt(q, s, k) = ByteAt(q, <<>>, k)
      BY <1>1, <2>1 DEF ByteAt
    <3>3. QED BY <1>2, <1>9, <3>1, <3>2
  <2>2. CASE k = l + 1
    <3>1. /\ k - 1 = l /\ l \in 0 .. l /\ k - l = 1 /\ k > l /\ ~ (k <= l) /\ k \in 0 .. m
      BY <1>1, <1>5, <2>2
    <3>2. ByteAt(q, s, k) = s[1]
      BY <1>1, <3>1 DEF ByteAt
    <3>3. w[k - 1] = z /\ p[k - 1] = 0 /\ w[k] = y /\ p[k] = skip(1)
      BY <1>2, <1>9, <3>1
    <3>4. QED BY <1>3, <3>2, <3>3
  <2>3. CASE k > l + 1
    <3>1. /\ k - l \in 2 .. Len(s) /\ k - 1 - l = k - l - 1 /\ k > l /\ k - 1 > l
          /\ k \in 0 .. m /\ k - 1 \in 0 .. m /\ ~ (k <= l)
      BY <1>1, <1>5, <2>3
    <3>2. ByteAt(q, s, k) = s[k - l]
      BY <1>1, <3>1 DEF ByteAt
    <3>3. w[k - 1] = y /\ p[k - 1] = skip(k - l - 1) /\ w[k] = y /\ p[k] = skip(k - l)
      BY <1>9, <3>1
    <3>4. skip(k - l) = NextReps(skip(k - l - 1), s[k - l]) /\ skip(k - l - 1) > 0
      BY <1>3, <3>1
    <3>5. skip(k - l - 1) # 0
      BY <3>4
    <3>6. NextCaps(y, skip(k - l - 1), s[k - l]) = y
      BY <3>5 DEF NextCaps
    <3>7. QED BY <3>2, <3>3, <3>4, <3>6
  <2>4. QED BY <1>1, <1>5, <2>1, <2>2, <2>3
<1>11. w[0] = c /\ p[0] = r /\ w[m] = y /\ p[m] = 0
  <2>1. 0 \in 0 .. l /\ m \in 0 .. m
    BY <1>1, <1>5
  <2>2. QED BY <1>2, <1>3, <1>5, <1>9, <2>1
<1>12. LeadsTo(c, r, q, s, y)
  BY <1>7, <1>8, <1>10, <1>11 DEF LeadsTo, m
<1>13. QED BY <1>12 DEF y

\* caps, once keyboard_task has done what it is at.
Due == IF pc = "run" /\ code = "shift" THEN ~ caps ELSE caps

\* What is on its way leads from caps to capital.
CapsKept ==
  /\ pc # "run" => reps = 0
  /\ pc = "run" /\ code = "shift" => reps = 0
  /\ "byte" \notin spoilt => LeadsTo(Due, reps, kbdqueue, wire, capital)

\* The steps that take or add no byte and leave caps alone.
LEMMA OthersKeepCaps ==
  ASSUME CapsKept, kbdqueue' = kbdqueue, wire' = wire, capital' = capital,
         reps' = reps, Due' = Due,
         "byte" \notin spoilt' => "byte" \notin spoilt,
         pc' # "run" => reps' = 0,
         pc' = "run" /\ code' = "shift" => reps' = 0
  PROVE  CapsKept'
  BY DEF CapsKept, LeadsTo, ByteAt

\* LeadsTo of the next state, from the values that state has.
LEMMA LeadsNext ==
  ASSUME NEW c, NEW r, NEW q, NEW w, NEW z, LeadsTo(c, r, q, w, z),
         Due' = c, reps' = r, kbdqueue' = q, wire' = w, capital' = z
  PROVE  LeadsTo(Due, reps, kbdqueue, wire, capital)'
  BY DEF LeadsTo, ByteAt

LEMMA CapsStep ==
  ASSUME KInv, CapsKept, WholeStrokes, [Next]_vars
  PROVE  CapsKept'
<1>1. /\ kbdqueue \in Seq(Bytes) /\ wire \in Seq(Bytes) /\ caps \in BOOLEAN
      /\ capital \in BOOLEAN /\ reps \in 0 .. 2 /\ Due \in BOOLEAN
  BY DEF KInv, TypeOK, Due
<1>2. CASE UNCHANGED vars
  BY <1>2, OthersKeepCaps DEF vars, kbd, history, Due, CapsKept
<1>3. ASSUME NEW s \in Strokes, Press(s)
      PROVE  CapsKept'
  <2>1. /\ wire = <<>> /\ wire' = s /\ capital' = (capital # (s = <<"shift">>))
        /\ kbdqueue' = kbdqueue /\ reps' = reps /\ Due' = Due /\ spoilt' = spoilt
        /\ pc' = pc /\ code' = code
    BY <1>3 DEF Press, kbd, Due
  <2>2. ASSUME "byte" \notin spoilt'
        PROVE  LeadsTo(Due, reps, kbdqueue, s, capital # (s = <<"shift">>))
    <3>1. LeadsTo(Due, reps, kbdqueue, <<>>, capital)
      BY <2>1, <2>2 DEF CapsKept
    <3>2. QED BY <1>1, <3>1, PressedLeads
  <2>3. ASSUME "byte" \notin spoilt'
        PROVE  LeadsTo(Due, reps, kbdqueue, wire, capital)'
    BY <2>1, <2>2, <2>3, LeadsNext
  <2>4. QED BY <2>1, <2>3 DEF CapsKept
<1>4. CASE Interrupt
  <2>1. /\ wire # <<>> /\ wire' = Tail(wire) /\ capital' = capital
        /\ reps' = reps /\ Due' = Due /\ pc' = pc /\ code' = code
    BY <1>4 DEF Interrupt, kbd, history, Due
  <2>2. ASSUME "byte" \notin spoilt'
        PROVE  "byte" \notin spoilt /\ kbdqueue' = Append(kbdqueue, Head(wire))
    BY <1>4, <2>2 DEF Interrupt
  <2>3. ASSUME "byte" \notin spoilt'
        PROVE  LeadsTo(Due, reps, Append(kbdqueue, Head(wire)), Tail(wire), capital)
    BY <1>1, <2>1, <2>2, <2>3, MovedLeads DEF CapsKept
  <2>4. ASSUME "byte" \notin spoilt'
        PROVE  LeadsTo(Due, reps, kbdqueue, wire, capital)'
    BY <2>1, <2>2, <2>3, <2>4, LeadsNext
  <2>5. QED BY <2>1, <2>4 DEF CapsKept
<1>5. ASSUME kbdqueue # <<>>, kbdqueue' = Tail(kbdqueue), wire' = wire,
             capital' = capital, spoilt' = spoilt,
             Due' = NextCaps(Due, reps, Head(kbdqueue)),
             reps' = NextReps(reps, Head(kbdqueue)),
             pc' = "run", code' = "shift" => reps' = 0
      PROVE  CapsKept'
  <2>1. ASSUME "byte" \notin spoilt
        PROVE  LeadsTo(Due', reps', Tail(kbdqueue), wire, capital)
    BY <1>1, <1>5, <2>1, TakenLeads DEF CapsKept
  <2>2. ASSUME "byte" \notin spoilt'
        PROVE  LeadsTo(Due, reps, kbdqueue, wire, capital)'
    BY <1>5, <2>1, <2>2, LeadsNext
  <2>3. QED BY <1>5, <2>2 DEF CapsKept
<1>6. CASE KbdTake
  <2> DEFINE x == Head(kbdqueue)
  <2>1. /\ pc = "idle" /\ kbdqueue # <<>> /\ kbdqueue' = Tail(kbdqueue) /\ pc' = "run"
        /\ code' = IF x \in {"E0", "E1"} THEN "extended" ELSE x
        /\ reps' = CASE x = "E0" -> 1 [] x = "E1" -> 2 [] OTHER -> 0
        /\ wire' = wire /\ capital' = capital /\ spoilt' = spoilt /\ caps' = caps
    BY <1>6 DEF KbdTake, history
  <2>2. reps = 0 /\ Due = caps
    BY <2>1 DEF CapsKept, Due
  <2>3. reps' = NextReps(reps, x)
    BY <2>1, <2>2 DEF NextReps
  <2>4. code' = "shift" <=> x = "shift"
    BY <2>1
  <2>5. Due' = NextCaps(Due, reps, x)
    BY <2>1, <2>2, <2>4 DEF NextCaps, Due
  <2>6. code' = "shift" => reps' = 0
    BY <2>1, <2>4
  <2>7. QED BY <1>5, <2>1, <2>3, <2>5, <2>6
<1>7. CASE KbdPrefix
  <2>1. /\ pc = "run" /\ reps > 0 /\ pc' = pc /\ code' = code /\ caps' = caps
        /\ wire' = wire /\ capital' = capital /\ spoilt' = spoilt
    BY <1>7 DEF KbdPrefix, history
  <2>2. code # "shift" /\ reps # 0
    BY <1>1, <2>1 DEF CapsKept
  <2>3. Due' = Due
    BY <2>1 DEF Due
  <2>4. CASE kbdqueue = <<>>
    <3>1. kbdqueue' = kbdqueue /\ reps' = reps
      BY <1>7, <2>4 DEF KbdPrefix
    <3>2. QED BY <2>1, <2>2, <2>3, <3>1, OthersKeepCaps DEF CapsKept
  <2>5. CASE kbdqueue # <<>>
    <3>1. kbdqueue' = Tail(kbdqueue) /\ reps' = reps - 1
      BY <1>7, <2>5 DEF KbdPrefix
    <3>2. reps' = NextReps(reps, Head(kbdqueue))
      BY <2>1, <3>1 DEF NextReps
    <3>3. Due' = NextCaps(Due, reps, Head(kbdqueue))
      BY <2>2, <2>3 DEF NextCaps
    <3>4. QED BY <1>5, <2>1, <2>2, <2>5, <3>1, <3>2, <3>3
  <2>6. QED BY <2>4, <2>5
<1>8. CASE Toggle
  <2>1. /\ pc = "run" /\ reps = 0 /\ code = "shift" /\ caps' = ~ caps /\ pc' = "idle"
        /\ wire' = wire /\ kbdqueue' = kbdqueue /\ reps' = reps /\ capital' = capital
        /\ spoilt' = spoilt
    BY <1>8 DEF Toggle, history
  <2>2. Due' = Due
    BY <2>1 DEF Due
  <2>3. QED BY <2>1, <2>2, OthersKeepCaps
<1>9. CASE SwitchShown \/ Lookup \/ BackLook
  <2>1. /\ pc = "run" /\ reps = 0 /\ code # "shift" /\ pc' # "run" /\ caps' = caps
        /\ wire' = wire /\ kbdqueue' = kbdqueue /\ reps' = reps /\ capital' = capital
        /\ "byte" \notin spoilt' => "byte" \notin spoilt
    BY <1>9, KeyboardAssumption DEF SwitchShown, Lookup, BackLook, history
  <2>2. Due' = Due
    BY <2>1 DEF Due
  <2>3. QED BY <2>1, <2>2, OthersKeepCaps
<1>10. CASE SwitchFocus \/ BackUndo \/ Add \/ Find \/ Ready
  <2>1. /\ pc # "run" /\ pc' # "run" /\ caps' = caps /\ wire' = wire
        /\ kbdqueue' = kbdqueue /\ reps' = reps /\ capital' = capital
        /\ "byte" \notin spoilt' => "byte" \notin spoilt
    BY <1>10 DEF SwitchFocus, BackUndo, Add, Find, Ready, history
  <2>2. Due' = Due /\ reps = 0
    BY <2>1 DEF Due, CapsKept
  <2>3. QED BY <2>1, <2>2, OthersKeepCaps
<1>11. ASSUME NEW c \in Consoles, Pause(c) \/ Read(c)
       PROVE  CapsKept'
  <2>1. /\ pc' = pc /\ code' = code /\ caps' = caps /\ wire' = wire
        /\ kbdqueue' = kbdqueue /\ reps' = reps /\ capital' = capital
        /\ "byte" \notin spoilt' => "byte" \notin spoilt
    BY <1>11 DEF Pause, Read, Take, TakeUndone, kbd, history
  <2>2. Due' = Due
    BY <2>1 DEF Due
  <2>3. QED BY <2>1, <2>2, OthersKeepCaps DEF CapsKept
<1>12. QED
  BY <1>2, <1>3, <1>4, <1>6, <1>7, <1>8, <1>9, <1>10, <1>11 DEF Next, KeyboardTask

\* For keys that send whole codes: once every byte has been handled, the capitals
\* are what the keys say, unless a byte was lost.
THEOREM CapitalsInStep ==
  ASSUME WholeStrokes
  PROVE  Spec => []ShiftInStep
<1>1. Init => CapsKept
  <2>1. SUFFICES ASSUME Init PROVE CapsKept
    OBVIOUS
  <2>2. /\ pc = "idle" /\ reps = 0 /\ caps = FALSE /\ capital = FALSE
        /\ kbdqueue = <<>> /\ wire = <<>> /\ Due = FALSE
    BY <2>1 DEF Init, Due
  <2>3. QED BY <2>2, NothingLeads DEF CapsKept
<1>2. KInv /\ CapsKept /\ [Next]_vars => CapsKept'
  BY CapsStep
<1>3. KInv /\ CapsKept => ShiftInStep
  <2>1. SUFFICES ASSUME CapsKept, wire = <<>>, kbdqueue = <<>>, pc = "idle",
                        "byte" \notin spoilt
                 PROVE  caps = capital
    BY DEF ShiftInStep
  <2>2. LeadsTo(caps, 0, <<>>, <<>>, capital)
    BY <2>1 DEF CapsKept, Due
  <2>3. Len(<<>>) + Len(<<>>) = 0
    OBVIOUS
  <2>4. QED BY <2>2, <2>3 DEF LeadsTo
<1>4. QED BY <1>1, <1>2, <1>3, KeyboardInvariance, PTL DEF Spec

=============================================================================
