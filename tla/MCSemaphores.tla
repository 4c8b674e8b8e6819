----------------------------- MODULE MCSemaphores -----------------------------
(* Semaphores for TLC: who waits on behalf of whom.  The operators are the   *)
(* shells where "semwait <sem ID> <pid>" is typed, the workers the commands *)
(* named in it; a command that waits for itself is a producer or consumer.  *)
EXTENDS Semaphores

CONSTANTS Operators, Workers

MCTasks == Operators \union Workers
WorkersAndSelves ==
  [t \in MCTasks |-> IF t \in Operators THEN Workers ELSE {t}]

=============================================================================
