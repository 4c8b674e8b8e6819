------------------------------- MODULE MCTasks -------------------------------
(* Tasks for TLC: the shells of the consoles, and the symmetry of the       *)
(* programs, which no action tells apart.                                   *)
EXTENDS Tasks, TLC

MCShell == [c \in 0 .. NConsoles - 1 |-> <<"init_shell", c>>]

AllTasks == TaskSet
NoTasks == {}
OnlyShells == Shells
UserTasks == Shells \union Programs
FirstShellAndPrograms == {Shell[0]} \union Programs

ProgramSymmetry == Permutations(Programs)

=============================================================================
