--------------------------- MODULE MCPlanExecution ---------------------------
(* Small instances of PlanExecution.                                          *)
EXTENDS PlanExecution, TLC

CONSTANTS p1, p2, k1, k2

\* Every command has a key of its own.
KeysOneEach == [p \in Plans |-> [i \in Cmds |-> IF i = 1 THEN k1 ELSE k2]]

\* Two one-command plans that reuse one key: the CONFLICT decision.
KeysShared == [p \in Plans |-> [i \in Cmds |-> k1]]

Symmetry == Permutations(Hosts) \cup Permutations(Attempts) \cup Permutations(Plans)

NoneLatched == [p \in Plans |-> 0]
FirstLatched == [p \in Plans |-> 1]
=============================================================================
