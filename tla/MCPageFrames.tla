---------------------------- MODULE MCPageFrames ----------------------------
(* PageFrames for TLC: frames are numbered from 0, the frame at 12 MB; the   *)
(* kernel's tables come from the top of memory.                             *)
EXTENDS PageFrames

CONSTANT Memory  \* the number of frames

MCFrames == 0 .. Memory - 1
MCKernelDirs == {0}
MCStackDirs == {1}
MCHeapDir == 2
MCKTable == [d \in {0} |-> Memory - 1]
MCBoot == [i \in 1 .. Memory - 1 |-> i - 1]

\* All the places of a process, the tables before what they point to.
AllPlaces ==
  <<<<4>>, <<3>>, <<2>>, <<1, 0>>, <<1, 1>>>> \o [i \in 1 .. Entries |-> <<0, 1, i - 1>>]
    \o <<<<1, 2>>>> \o [i \in 1 .. Entries |-> <<0, 2, i - 1>>]
MCVisit(S) == SelectSeq(AllPlaces, LAMBDA s : s \in S)

=============================================================================
