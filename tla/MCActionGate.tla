---------------------------- MODULE MCActionGate ----------------------------
(* Small instance of ActionGate: two actions that may want the same campaign *)
(* value, concurrent executions in a process that may crash, one operator.   *)
EXTENDS ActionGate, TLC

Production == [approval |-> TRUE, dryRun |-> FALSE, tools |-> TRUE]

\* The deployment the repository ships, and one that differs in each switch.
ManyDeployments ==
  {Production, [Production EXCEPT !.dryRun = TRUE], [Production EXCEPT !.tools = FALSE]}

OnlyProduction == {Production}

Symmetry == Permutations(Action) \cup Permutations(Value) \cup Permutations(Request)
=============================================================================
