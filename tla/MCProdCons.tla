------------------------------ MODULE MCProdCons ------------------------------
(* ProdCons for TLC: one producer, consumers, and operators who type        *)
(* "semwait <sem ID> <pid>" for anybody and "semsig".                       *)
EXTENDS ProdCons

CONSTANT Operators

MCTasks == Operators \union Users
OperatorsBlock == [t \in MCTasks |-> IF t \in Operators THEN Users ELSE {}]
MCItems == {<<"a">>, <<"b", "b", "b">>}

=============================================================================
