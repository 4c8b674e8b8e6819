------------------------------ MODULE MCHandlers ------------------------------
(* Handlers for TLC: the tasks are interchangeable.                         *)
EXTENDS Handlers, TLC

TaskSymmetry == Permutations(Tasks)

=============================================================================
