------------------------------ MODULE FileStore ------------------------------
(***************************************************************************)
(* What the programs of UnicOS may expect of its files, without            *)
(* directories, slots, descriptors or cursors: a path is bound to a file   *)
(* at most once and for ever, and the bytes of a file change only where    *)
(* somebody writes them.                                                   *)
(***************************************************************************)
EXTENDS Integers, Sequences

CONSTANTS
  Paths,    \* the paths of files that programs use
  Chunks,   \* what they write
  Gap,      \* a byte that nobody wrote
  MaxAt     \* the highest place they write at

VARIABLES
  binding,  \* binding[p]: the file p opens, 0 when there is none
  content   \* content[f]: the bytes of file f

svars == <<binding, content>>

Init ==
  /\ binding = [p \in Paths |-> 0]
  /\ content = <<>>

\* The bytes of a file after chunk is written behind its first at bytes.
Written(bytes, at, chunk) ==
  LET end == at + Len(chunk)
      size == IF end > Len(bytes) THEN end ELSE Len(bytes)
  IN [k \in 1 .. size |->
        IF k \in at + 1 .. end THEN chunk[k - at]
        ELSE IF k <= Len(bytes) THEN bytes[k] ELSE Gap]

\* A path without a file is opened with O_CREAT: it is bound to a new file, and
\* with it other free paths may be, those that lead to the same place.
Create(p) ==
  /\ binding[p] = 0
  /\ content' = Append(content, <<>>)
  /\ \E taken \in SUBSET {q \in Paths : binding[q] = 0} :
       /\ p \in taken
       /\ binding' = [q \in Paths |-> IF q \in taken THEN Len(content) + 1
                                      ELSE binding[q]]

\* A path that has a file is opened with O_CREAT: fs_open does not look for it and
\* makes another of the same name, which no path leads to.
CreateAgain(p) ==
  /\ binding[p] # 0
  /\ content' = Append(content, <<>>)
  /\ UNCHANGED binding

Truncate(f) ==
  /\ content' = [content EXCEPT ![f] = <<>>]
  /\ UNCHANGED binding

Write(f) ==
  /\ \E at \in 0 .. MaxAt, chunk \in Chunks :
       content' = [content EXCEPT ![f] = Written(content[f], at, chunk)]
  /\ UNCHANGED binding

Next ==
  \/ \E p \in Paths : Create(p) \/ CreateAgain(p)
  \/ \E f \in DOMAIN content : Truncate(f) \/ Write(f)

Spec == Init /\ [][Next]_svars

=============================================================================
